---- MODULE Spec2Model ----
(***************************************************************************)
(* A model of MusicXMLSimplifier (src/musicxml_simplifier.py).             *)
(*                                                                         *)
(* The program works on the TEXT of a MusicXML document.  The document is  *)
(* modelled as the sequence of its XML elements, each a record             *)
(* [t |-> tag, v |-> value, nl |-> a line break follows].  Input documents *)
(* hold one element per line (the layout notation programs export); the    *)
(* passes are translated from their line scans and regular expressions,    *)
(* and may join lines.  The typed reading of a document (measures, events) *)
(* is used only to state the properties.                                   *)
(***************************************************************************)
EXTENDS Integers, Sequences, FiniteSets, TLC

VARIABLES
    content,                \* the document text the passes thread along
    prev,                   \* the document before the pass that ran last
    input,                  \* the document as read from the input file
    pc,                     \* position in simplify_file
    source_instrument,      \* simplify_file's source_instrument argument
    source_key,             \* simplify_file's source_key argument (fifths) or NoKey
    measures_processed,     \* self.measures_processed
    eighth_notes_converted, \* self.eighth_notes_converted
    scan_log,               \* one record per iteration of the rhythm scan
    options,                \* simplify_file's other arguments
    trace,                  \* the passes that have run on the document, in order
    history_log,            \* note_history after the first and the second pass
                            \* of add_courtesy_accidentals
    output_file,            \* the file at output_path: whether it exists, its text
    returned,               \* what simplify_file returned: "True", "False", or
                            \* "none" while it runs
    runs                    \* the runs started on this simplifier object

vars == <<content, prev, input, pc, source_instrument, source_key,
          measures_processed, eighth_notes_converted, scan_log, options, trace,
          history_log, output_file, returned, runs>>

\* simplify_file's arguments and the counters of the rhythm pass
args == <<input, source_instrument, source_key, options>>
counters == <<measures_processed, eighth_notes_converted, scan_log>>
\* what a run leaves behind, and the count of the runs
outcome == <<output_file, returned, runs>>

(***************************************************************************)
(* Bounds of the model.                                                    *)
(***************************************************************************)
MaxEvents == 3
MaxRuns == 2

Min(a, b) == IF a < b THEN a ELSE b
Max(a, b) == IF a > b THEN a ELSE b
Abs(a) == IF a < 0 THEN -a ELSE a

(***************************************************************************)
(* Lines of the document.                                                  *)
(***************************************************************************)
\* one element followed by a line break
L(tag, val) == [t |-> tag, v |-> val, nl |-> TRUE]

\* <step> values: C D E F G A B
StepC == 1
StepD == 2
StepE == 3
StepF == 4
StepG == 5
StepA == 6
StepB == 7
Steps == 1..7

\* <type> values, by the note's denominator
TypeEighth == 8
TypeQuarter == 4
TypeHalf == 2

(***************************************************************************)
(* Input documents: typed events and their serialisation.                  *)
(***************************************************************************)
Pitch(s, a, o) == [step |-> s, alter |-> a, octave |-> o]
NoPitch == Pitch(0, 0, 0)

\* kind: "E" eighth, "Q" quarter, "DQ" dotted quarter; rest: a rest
Ev(kind, isRest, p) == [kind |-> kind, rest |-> isRest, pitch |-> p]

\* <duration> of a kind when a quarter note lasts div divisions
DurationOf(kind, div) ==
    CASE kind = "E" -> div \div 2
      [] kind = "Q" -> div
      [] kind = "DQ" -> (3 * div) \div 2

TypeOf(kind) == IF kind = "E" THEN TypeEighth ELSE TypeQuarter

RenderPitch(p) ==
    <<L("pitch", 0), L("step", p.step)>>
    \o (IF p.alter # 0 THEN <<L("alter", p.alter)>> ELSE <<>>)
    \o <<L("octave", p.octave), L("endpitch", 0)>>

RenderNote(ev, div, beamed) ==
    <<L("note", 0)>>
    \o (IF ev.rest THEN <<L("rest", 0)>> ELSE RenderPitch(ev.pitch))
    \o <<L("duration", DurationOf(ev.kind, div)), L("type", TypeOf(ev.kind))>>
    \o (IF ev.kind = "DQ" THEN <<L("dot", 0)>> ELSE <<>>)
    \o (IF beamed /\ ev.kind = "E" /\ ~ev.rest THEN <<L("beam", 1)>> ELSE <<>>)
    \o <<L("endnote", 0)>>

RECURSIVE RenderEvents(_, _, _)
RenderEvents(evs, div, beamed) ==
    IF evs = <<>> THEN <<>>
    ELSE RenderNote(Head(evs), div, beamed) \o RenderEvents(Tail(evs), div, beamed)

RenderAttributes(div, fifths) ==
    <<L("attributes", 0), L("divisions", div), L("key", 0), L("fifths", fifths),
      L("endkey", 0), L("endattributes", 0)>>

RECURSIVE RenderMeasures(_, _, _, _, _)
RenderMeasures(ms, n, div, fifths, beamed) ==
    IF ms = <<>> THEN <<>>
    ELSE <<L("measure", n)>>
         \o (IF n = 1 THEN RenderAttributes(div, fifths) ELSE <<>>)
         \o RenderEvents(Head(ms), div, beamed)
         \o <<L("endmeasure", 0)>>
         \o RenderMeasures(Tail(ms), n + 1, div, fifths, beamed)

\* xml declaration, score-partwise, part-list, score-part, part-name,
\* /score-part, /part-list, part
Header == [k \in 1..8 |-> IF k = 5 THEN L("part-name", "Music") ELSE L("other", k)]
Footer == <<L("other", 9), L("other", 10)>>

\* A score part as the metadata passes read it.  meta.misc: the partName field
\* of the identification, or ""; meta.part: the part name; meta.instrument: the
\* part has a score-instrument and a midi-instrument, with meta.name, meta.sound
\* and meta.program.
RenderIdentification(meta) ==
    IF meta.misc = "" THEN <<>>
    ELSE <<L("identification", 0), L("miscellaneous", 0),
           L("miscellaneous-field", <<meta.misc>>), L("endmiscellaneous", 0),
           L("endidentification", 0)>>

RenderPartList(meta) ==
    <<L("other", 3), L("other", 4), L("part-name", meta.part)>>
    \o (IF meta.instrument
        THEN <<L("score-instrument", 0), L("instrument-name", meta.name),
               L("instrument-sound", meta.sound), L("endscore-instrument", 0),
               L("midi-instrument", 0), L("midi-program", meta.program),
               L("endmidi-instrument", 0)>>
        ELSE <<>>)
    \o <<L("other", 6), L("other", 7)>>

\* <transpose> with its <diatonic> and <chromatic>
RenderTranspose(diatonic, chromatic) ==
    <<L("transpose", 0), L("diatonic", diatonic), L("chromatic", chromatic),
      L("endtranspose", 0)>>

\* clef: the attributes have a <clef>; transposes: the <transpose> elements of
\* the attributes, as <<diatonic, chromatic>> pairs
RenderAttributesWith(div, fifths, clef, transposes) ==
    <<L("attributes", 0), L("divisions", div), L("key", 0), L("fifths", fifths),
      L("endkey", 0)>>
    \o (IF clef THEN <<L("clef", 0), L("sign", 0), L("line", 0), L("endclef", 0)>>
        ELSE <<>>)
    \o (IF Len(transposes) > 0 THEN RenderTranspose(transposes[1][1], transposes[1][2])
        ELSE <<>>)
    \o <<L("endattributes", 0)>>

\* a one-part score of two measures, one quarter note each; the second measure
\* restates the transposition when there is a second pair in transposes
RenderPart(meta, fifths, clef, transposes, p) ==
    <<L("other", 1), L("other", 2)>> \o RenderIdentification(meta)
    \o RenderPartList(meta) \o <<L("other", 8)>>
    \o <<L("measure", 1)>> \o RenderAttributesWith(2, fifths, clef, transposes)
    \o RenderNote(Ev("Q", FALSE, p), 2, FALSE) \o <<L("endmeasure", 0)>>
    \o <<L("measure", 2)>>
    \o (IF Len(transposes) > 1
        THEN <<L("attributes", 0)>> \o RenderTranspose(transposes[2][1], transposes[2][2])
             \o <<L("endattributes", 0)>>
        ELSE <<>>)
    \o RenderNote(Ev("Q", FALSE, p), 2, FALSE) \o <<L("endmeasure", 0)>>
    \o Footer

\* A pitched quarter note as the annotating passes read it.  n.accidental: the
\* kind of its <accidental>, or ""; n.cautionary: the accidental has
\* cautionary="yes"; n.notations: "" (no <notations>), "slur" (a <notations>
\* with a slur) or "technical" (a <notations> with a <technical> holding a bowing)
Annotated(p, accidental, cautionary, notations) ==
    [pitch |-> p, accidental |-> accidental, cautionary |-> cautionary,
     notations |-> notations]

RenderAnnotated(n) ==
    <<L("note", 0)>> \o (IF n.pitch = NoPitch THEN <<L("rest", 0)>> ELSE RenderPitch(n.pitch))
    \o <<L("duration", 2), L("type", TypeQuarter)>>
    \o (IF n.accidental # ""
        THEN <<L("accidental", [kind |-> n.accidental, cautionary |-> n.cautionary])>>
        ELSE <<>>)
    \o (CASE n.notations = "slur" ->
               <<L("notations", 0), L("slur", 0), L("endnotations", 0)>>
          [] n.notations = "technical" ->
               <<L("notations", 0), L("technical", 0), L("up-bow", 0),
                 L("endtechnical", 0), L("endnotations", 0)>>
          [] OTHER -> <<>>)
    \o <<L("endnote", 0)>>

RECURSIVE RenderAnnotatedNotes(_)
RenderAnnotatedNotes(ns) ==
    IF ns = <<>> THEN <<>>
    ELSE RenderAnnotated(Head(ns)) \o RenderAnnotatedNotes(Tail(ns))

RECURSIVE RenderAnnotatedMeasures(_, _)
RenderAnnotatedMeasures(ms, n) ==
    IF ms = <<>> THEN <<>>
    ELSE <<L("measure", n)>>
         \o (IF n = 1 THEN RenderAttributes(2, 0) ELSE <<>>)
         \o RenderAnnotatedNotes(Head(ms))
         \o <<L("endmeasure", 0)>>
         \o RenderAnnotatedMeasures(Tail(ms), n + 1)

\* a one-part score of measures of annotated notes
RenderAnnotatedDoc(ms) == Header \o RenderAnnotatedMeasures(ms, 1) \o Footer

RenderDoc(ms, div, fifths, beamed) ==
    Header \o RenderMeasures(ms, 1, div, fifths, beamed) \o Footer

SeqsUpTo(S, n) == UNION {[1..k -> S] : k \in 1..n}

\* every split of a sequence of events into one or two measures
Scores(S, n) ==
    {<<s>> : s \in SeqsUpTo(S, n)}
    \cup UNION {{<<SubSeq(s, 1, k), SubSeq(s, k + 1, Len(s))>> : k \in 1..(Len(s) - 1)}
                : s \in SeqsUpTo(S, n)}

(***************************************************************************)
(* Rhythm simplifier: apply_downbeat_rules and its helpers.  It scans the  *)
(* document line by line (content.split('\n')): a line is the sequence of  *)
(* elements up to a line break.  Indices are 1-based: Python's lines[i] is *)
(* lines[i + 1] here.                                                      *)
(***************************************************************************)
\* content.split('\n')
\* the indices at which a line ends: at a line break and at the end of the text
LineEnds(els) ==
    SelectSeq([k \in 1..Len(els) |-> k], LAMBDA k : els[k].nl \/ k = Len(els))

SplitLines(els) ==
    LET ends == LineEnds(els)
    IN  [i \in 1..Len(ends) |->
            SubSeq(els, IF i = 1 THEN 1 ELSE ends[i - 1] + 1, ends[i])]

\* '\n'.join(lines)
RECURSIVE JoinLines(_)
JoinLines(lines) ==
    IF lines = <<>> THEN <<>>
    ELSE IF Len(lines) = 1
        THEN LET line == Head(lines)
             IN  [k \in 1..Len(line) |-> [line[k] EXCEPT !.nl = (k = Len(line))]]
    ELSE JoinLines(SubSeq(lines, 1, Len(lines) \div 2))
         \o JoinLines(SubSeq(lines, Len(lines) \div 2 + 1, Len(lines)))

\* '<tag' in line
LineHas(line, tag) == \E k \in 1..Len(line) : line[k].t = tag
\* '<beam number=' in line: a beam element is valued with its number attribute,
\* 0 when it has none (<beam>begin</beam>)
LineHasNumberedBeam(line) == \E k \in 1..Len(line) : line[k].t = "beam" /\ line[k].v # 0
\* '<type>ty</type>' in line
LineHasType(line, ty) == \E k \in 1..Len(line) : line[k].t = "type" /\ line[k].v = ty
\* '<duration>d</duration>' in line
LineHasDuration(line, d) == \E k \in 1..Len(line) : line[k].t = "duration" /\ line[k].v = d

\* line.replace(old element, new element)
ReplaceIn(line, tag, old, new) ==
    [k \in 1..Len(line) |->
        IF line[k].t = tag /\ line[k].v = old THEN [line[k] EXCEPT !.v = new] ELSE line[k]]

\* the least index in from..Len(lines) of a line holding the tag, or Len + 1
FindLine(lines, from, tag) ==
    IF \E j \in from..Len(lines) : LineHas(lines[j], tag)
    THEN CHOOSE j \in from..Len(lines) :
             LineHas(lines[j], tag) /\ \A x \in from..(j - 1) : ~LineHas(lines[x], tag)
    ELSE Len(lines) + 1

_is_eighth_note_start(lines, index) ==
    \E i \in index..Min(index + 9, Len(lines)) : LineHasType(lines[i], TypeEighth)

_is_dotted_quarter_start(lines, index) ==
    \E i \in index..Min(index + 14, Len(lines)) :
        /\ LineHasType(lines[i], TypeQuarter)
        /\ \E j \in i..Min(i + 4, Len(lines)) : LineHas(lines[j], "dot")

\* the lines from start_index through the next </note>, and the index after
_extract_note_block(lines, start_index) ==
    LET n == Len(lines)
        open == FindLine(lines, start_index, "note")
        close == FindLine(lines, open + 1, "endnote")
    IN  IF open > n THEN [block |-> SubSeq(lines, start_index, n), next |-> n + 1]
        ELSE IF close > n THEN [block |-> SubSeq(lines, start_index, n), next |-> n + 1]
        ELSE [block |-> SubSeq(lines, start_index, close), next |-> close + 1]

HasTag(block, tag) == \E k \in 1..Len(block) : LineHas(block[k], tag)
HasType(block, ty) == \E k \in 1..Len(block) : LineHasType(block[k], ty)

\* a variant that takes any block of type eighth for an eighth note
_is_eighth_note_block_any(block) == HasType(block, TypeEighth)

_is_eighth_note_block(block) == HasType(block, TypeEighth) /\ HasTag(block, "pitch")

_is_eighth_rest_block(block) == HasType(block, TypeEighth) /\ HasTag(block, "rest")

_is_dotted_quarter_block(block) ==
    HasType(block, TypeQuarter) /\ HasTag(block, "dot") /\ HasTag(block, "pitch")

\* a variant that retypes the note and leaves its duration and beams alone
_convert_to_quarter_note_type_only(note_block) ==
    [k \in 1..Len(note_block) |->
        IF LineHasType(note_block[k], TypeEighth)
        THEN ReplaceIn(note_block[k], "type", TypeEighth, TypeQuarter)
        ELSE note_block[k]]

RECURSIVE _convert_to_quarter_note(_)
_convert_to_quarter_note(note_block) ==
    IF note_block = <<>> THEN <<>>
    ELSE LET line == Head(note_block)
             more == _convert_to_quarter_note(Tail(note_block))
         IN  IF LineHasDuration(line, 1) THEN <<ReplaceIn(line, "duration", 1, 2)>> \o more
             ELSE IF LineHasType(line, TypeEighth)
                 THEN <<ReplaceIn(line, "type", TypeEighth, TypeQuarter)>> \o more
             ELSE IF LineHasNumberedBeam(line) THEN more
             ELSE IF LineHas(line, "slur") THEN more
             ELSE <<line>> \o more

\* a variant that doubles the duration and leaves the type alone
_convert_to_quarter_rest_duration_only(rest_block) ==
    [k \in 1..Len(rest_block) |->
        IF LineHasDuration(rest_block[k], 1)
        THEN ReplaceIn(rest_block[k], "duration", 1, 2)
        ELSE rest_block[k]]

RECURSIVE _convert_to_quarter_rest(_)
_convert_to_quarter_rest(rest_block) ==
    IF rest_block = <<>> THEN <<>>
    ELSE LET line == Head(rest_block)
             more == _convert_to_quarter_rest(Tail(rest_block))
         IN  IF LineHasDuration(line, 1) THEN <<ReplaceIn(line, "duration", 1, 2)>> \o more
             ELSE IF LineHasType(line, TypeEighth)
                 THEN <<ReplaceIn(line, "type", TypeEighth, TypeQuarter)>> \o more
             ELSE IF LineHasNumberedBeam(line) THEN more
             ELSE <<line>> \o more

\* duration_changed is threaded through the loop over the block's lines
RECURSIVE ConvertHalfFrom(_, _)
ConvertHalfFrom(block, duration_changed) ==
    IF block = <<>> THEN <<>>
    ELSE LET line == Head(block)
         IN  IF LineHasDuration(line, 3)
                 THEN <<ReplaceIn(line, "duration", 3, 4)>> \o ConvertHalfFrom(Tail(block), TRUE)
             ELSE IF LineHasType(line, TypeQuarter) /\ duration_changed
                 THEN <<ReplaceIn(line, "type", TypeQuarter, TypeHalf)>>
                      \o ConvertHalfFrom(Tail(block), duration_changed)
             ELSE IF LineHas(line, "dot") THEN ConvertHalfFrom(Tail(block), duration_changed)
             ELSE IF LineHasNumberedBeam(line) THEN ConvertHalfFrom(Tail(block), duration_changed)
             ELSE IF LineHas(line, "slur") THEN ConvertHalfFrom(Tail(block), duration_changed)
             ELSE <<line>> \o ConvertHalfFrom(Tail(block), duration_changed)

_convert_to_half_note(dotted_quarter_block) == ConvertHalfFrom(dotted_quarter_block, FALSE)

\* re.sub(r'\s*<beam number="[^"]*">[^<]*</beam>\s*\n?', ''): the white space on
\* both sides goes with the beam, so the element before it loses its line break.
\* The pattern asks for the number attribute.
_remove_beams(els) ==
    SelectSeq([k \in 1..Len(els) |->
                  IF k < Len(els) /\ els[k + 1].t = "beam" /\ els[k + 1].v # 0
                  THEN [els[k] EXCEPT !.nl = FALSE]
                  ELSE els[k]],
              LAMBDA e : ~(e.t = "beam" /\ e.v # 0))

\* a variant that goes on with the second event of a merged pair
ScanStepOverlapping(lines, i) ==
    LET n == Len(lines)
        counted == IF LineHas(lines[i], "measure") THEN 1 ELSE 0
        nb == _extract_note_block(lines, i)
        xb == _extract_note_block(lines, nb.next)
        asIs == [at |-> i, out |-> nb.block, next |-> nb.next, rule |-> 0,
                 counted |-> counted]
    IN  IF _is_dotted_quarter_start(lines, i) THEN
            IF /\ nb.next <= n
               /\ _is_dotted_quarter_block(nb.block)
               /\ _is_eighth_note_block(xb.block)
            THEN [at |-> i, out |-> _convert_to_half_note(nb.block), next |-> nb.next,
                  rule |-> 1, counted |-> counted]
            ELSE asIs
        ELSE IF _is_eighth_note_start(lines, i) THEN
            IF /\ nb.next <= n
               /\ _is_eighth_note_block(nb.block)
               /\ (_is_eighth_note_block(xb.block) \/ _is_eighth_rest_block(xb.block))
            THEN [at |-> i, out |-> _convert_to_quarter_note(nb.block), next |-> nb.next,
                  rule |-> 2, counted |-> counted]
            ELSE IF /\ nb.next <= n
                    /\ _is_eighth_rest_block(nb.block)
                    /\ _is_eighth_note_block(xb.block)
            THEN [at |-> i, out |-> _convert_to_quarter_rest(nb.block), next |-> nb.next,
                  rule |-> 3, counted |-> counted]
            ELSE asIs
        ELSE [at |-> i, out |-> <<lines[i]>>, next |-> i + 1, rule |-> 0,
              counted |-> counted]

\* One iteration of the while loop at index i: the lines it appends, the index
\* it moves to, the rule it applied (0: none) and whether it counted a measure.
ScanStep(lines, i) ==
    LET n == Len(lines)
        counted == IF LineHas(lines[i], "measure") THEN 1 ELSE 0
        nb == _extract_note_block(lines, i)
        xb == _extract_note_block(lines, nb.next)
        asIs == [at |-> i, out |-> nb.block, next |-> nb.next, rule |-> 0,
                 counted |-> counted]
    IN  IF _is_dotted_quarter_start(lines, i) THEN
            IF /\ nb.next <= n
               /\ _is_dotted_quarter_block(nb.block)
               /\ _is_eighth_note_block(xb.block)
            THEN [at |-> i, out |-> _convert_to_half_note(nb.block), next |-> xb.next,
                  rule |-> 1, counted |-> counted]
            ELSE asIs
        ELSE IF _is_eighth_note_start(lines, i) THEN
            IF /\ nb.next <= n
               /\ _is_eighth_note_block(nb.block)
               /\ (_is_eighth_note_block(xb.block) \/ _is_eighth_rest_block(xb.block))
            THEN [at |-> i, out |-> _convert_to_quarter_note(nb.block), next |-> xb.next,
                  rule |-> 2, counted |-> counted]
            ELSE IF /\ nb.next <= n
                    /\ _is_eighth_rest_block(nb.block)
                    /\ _is_eighth_note_block(xb.block)
            THEN [at |-> i, out |-> _convert_to_quarter_rest(nb.block), next |-> xb.next,
                  rule |-> 3, counted |-> counted]
            ELSE asIs
        ELSE [at |-> i, out |-> <<lines[i]>>, next |-> i + 1, rule |-> 0,
              counted |-> counted]

\* the iterations of the while loop from index i on
\* the least index from i on of a line at which a rule may apply, or Len + 1
NextStart(lines, i) ==
    LET hits == {j \in i..Len(lines) :
                    _is_dotted_quarter_start(lines, j) \/ _is_eighth_note_start(lines, j)}
    IN  IF hits = {} THEN Len(lines) + 1 ELSE CHOOSE j \in hits : \A x \in hits : j <= x

\* the lines before the next such line are taken one by one
RECURSIVE ScanFrom(_, _)
ScanFrom(lines, i) ==
    IF i > Len(lines) THEN <<>>
    ELSE IF NextStart(lines, i) > i
        THEN [j \in 1..(NextStart(lines, i) - i) |-> ScanStep(lines, i + j - 1)]
             \o ScanFrom(lines, NextStart(lines, i))
    ELSE LET s == ScanStep(lines, i) IN <<s>> \o ScanFrom(lines, s.next)

\* result_lines after these iterations
RECURSIVE ResultLines(_)
ResultLines(steps) ==
    IF steps = <<>> THEN <<>>
    ELSE IF Len(steps) = 1 THEN Head(steps).out
    ELSE ResultLines(SubSeq(steps, 1, Len(steps) \div 2))
         \o ResultLines(SubSeq(steps, Len(steps) \div 2 + 1, Len(steps)))

\* a step counts one measure or none
CountedMeasures(steps) == Cardinality({i \in 1..Len(steps) : steps[i].counted = 1})

\* eighth_notes_converted grows by 2 for each application of rule 1, 2 or 3
ConvertedBy(steps) == 2 * Cardinality({i \in 1..Len(steps) : steps[i].rule # 0})

apply_downbeat_rules(els) ==
    LET steps == ScanFrom(SplitLines(els), 1)
    IN  [content |-> _remove_beams(JoinLines(ResultLines(steps))),
         measures |-> CountedMeasures(steps),
         converted |-> ConvertedBy(steps),
         steps |-> steps]

(***************************************************************************)
(* Range transposer: transpose_high_notes_for_beginners.  Its regular       *)
(* expressions read the document as one string: els is the sequence of its *)
(* elements.                                                               *)
(***************************************************************************)
\* the least index in from..Len(els) of an element with the tag, or Len + 1
FindAny(els, from, tags) ==
    IF \E j \in from..Len(els) : els[j].t \in tags
    THEN CHOOSE j \in from..Len(els) :
             els[j].t \in tags /\ \A x \in from..(j - 1) : els[x].t \notin tags
    ELSE Len(els) + 1

FindTag(els, from, tag) == FindAny(els, from, {tag})

\* the indices of the <pitch> els from index from on, in document order
RECURSIVE PitchStarts(_, _)
PitchStarts(els, from) ==
    LET k == FindTag(els, from, "pitch")
    IN  IF k > Len(els) THEN <<>> ELSE <<k>> \o PitchStarts(els, k + 1)

\* the index of the </pitch> that closes the <pitch> at k ('.*?' is not greedy)
PitchEnd(els, k) == Min(FindTag(els, k, "endpitch"), Len(els))

\* re.search of one element inside a pitch block: the first match, or none
HasField(els, k, tag) == \E j \in k..PitchEnd(els, k) : els[j].t = tag
FieldOf(els, k, tag) == els[FindTag(els, k, tag)].v

StepAt(els, k) == FieldOf(els, k, "step")
OctaveAt(els, k) == FieldOf(els, k, "octave")
AlterAt(els, k) == IF HasField(els, k, "alter") THEN FieldOf(els, k, "alter") ELSE 0

\* re.split(r'<measure[^>]*>'): the number of measure tags before line k
MeasureIdx(els, k) == Cardinality({j \in 1..k : els[j].t = "measure"})

note_values == <<0, 2, 4, 5, 7, 9, 11>>

calculate_midi_note(step, octave, alter) == (octave * 12) + note_values[step] + alter

\* a variant whose register break is at octave 6
RangeDirectionAboveOctave5(instrument, step, octave, alter) ==
    IF instrument = "c_euphonium" THEN
        IF octave < 2 \/ (octave = 2 /\ step \in {StepE, StepF}) THEN "up" ELSE "none"
    ELSE
        IF octave > 5 THEN "down" ELSE "none"

\* the basic range logic: "up", "down" or "none"
RangeDirection(instrument, step, octave, alter) ==
    IF instrument = "c_euphonium" THEN
        IF octave < 2 \/ (octave = 2 /\ step \in {StepE, StepF}) THEN "up" ELSE "none"
    ELSE
        IF \/ octave > 5
           \/ (octave = 5 /\ step \in {StepD, StepE, StepF, StepG, StepA, StepB})
           \/ (octave = 5 /\ step = StepC /\ alter = 1)
        THEN "down" ELSE "none"

\* notes_info before apply_nearby_note_logic
RECURSIVE NotesInfoOf(_, _, _)
NotesInfoOf(els, starts, instrument) ==
    IF starts = <<>> THEN <<>>
    ELSE LET k == Head(starts)
             more == NotesInfoOf(els, Tail(starts), instrument)
         IN  IF MeasureIdx(els, k) >= 1 /\ HasField(els, k, "step")
                /\ HasField(els, k, "octave")
             THEN <<[step |-> StepAt(els, k), octave |-> OctaveAt(els, k),
                     alter |-> AlterAt(els, k), measure_num |-> MeasureIdx(els, k),
                     direction |-> RangeDirection(instrument, StepAt(els, k),
                                                  OctaveAt(els, k), AlterAt(els, k))]>>
                  \o more
             ELSE more

MidiOf(info) == calculate_midi_note(info.step, info.octave, info.alter)

min_midi_note(instrument) == IF instrument = "c_euphonium" THEN 41 ELSE 60

SetMax(S) == CHOOSE x \in S : \A y \in S : y <= x

\* the decision apply_nearby_note_logic leaves on notes_info[i]
NearbyDirection(notes_info, i, instrument) ==
    LET current == notes_info[i]
        current_midi == MidiOf(current)
        before == {j \in Max(1, i - 3)..(i - 1) :
                      notes_info[j].measure_num = current.measure_num}
        after == {j \in (i + 1)..Min(Len(notes_info), i + 3) :
                      notes_info[j].measure_num = current.measure_num}
        context_notes == {MidiOf(notes_info[j]) : j \in before \cup after}
        JumpFrom(m) == SetMax({Abs(m - c) : c \in context_notes})
        max_jump == JumpFrom(current_midi)
        test_midi_down == current_midi - 12
        test_midi_up == current_midi + 12
    IN  IF current.direction # "none" THEN current.direction
        ELSE IF context_notes = {} THEN "none"
        ELSE IF max_jump <= 7 THEN "none"
        ELSE IF test_midi_down >= min_midi_note(instrument)
                /\ JumpFrom(test_midi_down) < max_jump THEN "down"
        ELSE IF test_midi_up <= 84 /\ JumpFrom(test_midi_up) < max_jump THEN "up"
        ELSE "none"

apply_nearby_note_logic(notes_info, instrument) ==
    IF Len(notes_info) < 2 THEN notes_info
    ELSE [i \in 1..Len(notes_info) |->
            [notes_info[i] EXCEPT !.direction = NearbyDirection(notes_info, i, instrument)]]

\* the first entry of notes_info with this step, octave and alter, or 0
RECURSIVE FindDecision(_, _, _, _, _)
FindDecision(notes_info, i, step, octave, alter) ==
    IF i > Len(notes_info) THEN 0
    ELSE IF notes_info[i].step = step /\ notes_info[i].octave = octave
            /\ notes_info[i].alter = alter THEN i
    ELSE FindDecision(notes_info, i + 1, step, octave, alter)

\* transpose_pitch_block on the <pitch> at k: the new <octave> value
transpose_pitch_block(els, k, notes_info) ==
    LET octave == OctaveAt(els, k)
        d == FindDecision(notes_info, 1, StepAt(els, k), octave, AlterAt(els, k))
    IN  IF ~(HasField(els, k, "step") /\ HasField(els, k, "octave")) THEN octave
        ELSE IF d = 0 THEN octave
        ELSE IF notes_info[d].direction = "none" THEN octave
        ELSE IF notes_info[d].direction = "up" THEN octave + 1
        ELSE octave - 1

\* the <pitch> line whose block holds line j, or 0
EnclosingPitch(els, j) ==
    LET S == {k \in 1..j : els[k].t = "pitch" /\ PitchEnd(els, k) >= j}
    IN  IF S = {} THEN 0 ELSE SetMax(S)

DecisionsOf(els, instrument) ==
    LET info == NotesInfoOf(els, PitchStarts(els, 1), instrument)
    IN  IF Len(info) > 1 THEN apply_nearby_note_logic(info, instrument) ELSE info

transpose_high_notes_for_beginners(els, instrument) ==
    LET notes_info == DecisionsOf(els, instrument)
    IN  [j \in 1..Len(els) |->
            IF els[j].t = "octave" /\ EnclosingPitch(els, j) # 0
            THEN [els[j] EXCEPT !.v =
                    transpose_pitch_block(els, EnclosingPitch(els, j), notes_info)]
            ELSE els[j]]

(***************************************************************************)
(* Instrument/key corrector: transpose_from_source_key.                    *)
(***************************************************************************)
RegisteredInstruments ==
    {"bb_trumpet", "concert_pitch", "flute", "eb_alto_sax", "f_horn", "c_euphonium",
     "bb_clarinet"}

\* INSTRUMENT_CORRECTIONS[instrument]['transpose_chromatic']
transpose_chromatic(instrument) ==
    CASE instrument = "bb_trumpet" -> -2
      [] instrument = "concert_pitch" -> 0
      [] instrument = "flute" -> 0
      [] instrument = "eb_alto_sax" -> -9
      [] instrument = "f_horn" -> -7
      [] instrument = "c_euphonium" -> 0
      [] instrument = "bb_clarinet" -> -2

\* the fifths_change chosen for the instrument
fifths_change(instrument) ==
    LET transpose_semitones == -transpose_chromatic(instrument)
    IN  IF transpose_semitones = 9 THEN 3
        ELSE IF transpose_semitones = 2 THEN 2
        ELSE IF transpose_semitones = -5 THEN -1
        ELSE (transpose_semitones * 7) \div 12

\* max(-7, min(7, target_key_fifths))
ClampFifths(f) == Max(-7, Min(7, f))

target_key_fifths(key, instrument) == ClampFifths(key + fifths_change(instrument))

\* re.search(r'<fifths>([+-]?\d+)</fifths>'): the first one, or 0
original_key_fifths(els) ==
    IF FindTag(els, 1, "fifths") > Len(els) THEN 0 ELSE els[FindTag(els, 1, "fifths")].v

sharp_order == <<StepF, StepC, StepG, StepD, StepA, StepE, StepB>>
flat_order == <<StepB, StepE, StepA, StepD, StepG, StepC, StepF>>

\* order[i] for the Python indices i of a range that are below len(order)
Letters(order, range) == {order[i + 1] : i \in {j \in range : j < Len(order)}}

notes_to_naturalize(old, new) ==
    IF new - old > 0 THEN
        IF old < 0 /\ new >= 0 THEN Letters(flat_order, 0..(Abs(old) - 1))
        ELSE IF old < 0 /\ new < 0
            THEN Letters(flat_order, {i \in 0..(Abs(old) - 1) : i >= Abs(new)})
        ELSE {}
    ELSE IF new - old < 0 THEN
        IF old > 0 /\ new <= 0 THEN Letters(sharp_order, 0..(old - 1))
        ELSE IF old > 0 /\ new > 0 THEN Letters(sharp_order, new..(old - 1))
        ELSE {}
    ELSE {}

notes_to_sharp(old, new) ==
    IF new - old > 0 THEN
        IF old < 0 /\ new >= 0 THEN Letters(sharp_order, 0..(new - 1))
        ELSE IF old < 0 /\ new < 0 THEN {}
        ELSE Letters(sharp_order, old..(new - 1))
    ELSE {}

notes_to_flat(old, new) ==
    IF new - old < 0 THEN
        IF old > 0 /\ new <= 0 THEN Letters(flat_order, 0..(Abs(new) - 1))
        ELSE IF old > 0 /\ new > 0 THEN {}
        ELSE Letters(flat_order, {i \in 0..(Abs(new) - 1) : i >= Abs(old)})
    ELSE {}

\* a variant without the naturalizing branch
new_alter_never_natural(step, current_alter, old, new) ==
    IF step \in notes_to_sharp(old, new) /\ current_alter = 0 THEN 1
    ELSE IF step \in notes_to_flat(old, new) /\ current_alter = 0 THEN -1
    ELSE current_alter

\* correct_pitch_block: the alter the pitch gets
new_alter(step, current_alter, old, new) ==
    IF step \in notes_to_naturalize(old, new) /\ current_alter # 0 THEN 0
    ELSE IF step \in notes_to_sharp(old, new) /\ current_alter = 0 THEN 1
    ELSE IF step \in notes_to_flat(old, new) /\ current_alter = 0 THEN -1
    ELSE current_alter

correction_made(step, current_alter, old, new) ==
    \/ step \in notes_to_naturalize(old, new) /\ current_alter # 0
    \/ step \in notes_to_sharp(old, new) /\ current_alter = 0
    \/ step \in notes_to_flat(old, new) /\ current_alter = 0

\* the pitch block correct_pitch_block writes: <pitch><step>, <octave>, <alter></pitch>
RebuiltPitch(step, octave, alter, nl) ==
    <<[t |-> "pitch", v |-> 0, nl |-> FALSE], [t |-> "step", v |-> step, nl |-> TRUE],
      [t |-> "octave", v |-> octave, nl |-> (alter # 0)]>>
    \o (IF alter # 0 THEN <<[t |-> "alter", v |-> alter, nl |-> FALSE]>> ELSE <<>>)
    \o <<[t |-> "endpitch", v |-> 0, nl |-> nl]>>

\* re.sub(r'<pitch>(.*?)</pitch>', correct_pitch_block) from element k on
RECURSIVE CorrectFrom(_, _, _, _)
CorrectFrom(els, k, old, new) ==
    IF k > Len(els) THEN <<>>
    ELSE LET e == FindTag(els, k, "endpitch")
         IN  IF els[k].t # "pitch" \/ e > Len(els)
                 THEN SubSeq(els, k, FindTag(els, k + 1, "pitch") - 1)
                      \o CorrectFrom(els, FindTag(els, k + 1, "pitch"), old, new)
             ELSE IF /\ HasField(els, k, "step") /\ HasField(els, k, "octave")
                     /\ correction_made(StepAt(els, k), AlterAt(els, k), old, new)
                 THEN RebuiltPitch(StepAt(els, k), OctaveAt(els, k),
                                   new_alter(StepAt(els, k), AlterAt(els, k), old, new),
                                   els[e].nl)
                      \o CorrectFrom(els, e + 1, old, new)
             ELSE SubSeq(els, k, e) \o CorrectFrom(els, e + 1, old, new)

correct_accidentals_for_key_change(els, old, new) ==
    IF old = new THEN els ELSE CorrectFrom(els, 1, old, new)

\* re.sub(r'<key[^>]*>.*?</key>', '<key><fifths>N</fifths></key>') from element k on
RECURSIVE UpdateKeyFrom(_, _, _)
UpdateKeyFrom(els, k, target_fifths) ==
    IF k > Len(els) THEN <<>>
    ELSE LET e == FindTag(els, k, "endkey")
         IN  IF els[k].t # "key" \/ e > Len(els)
                 THEN SubSeq(els, k, FindTag(els, k + 1, "key") - 1)
                      \o UpdateKeyFrom(els, FindTag(els, k + 1, "key"), target_fifths)
             ELSE <<[t |-> "key", v |-> 0, nl |-> FALSE],
                    [t |-> "fifths", v |-> target_fifths, nl |-> FALSE],
                    [t |-> "endkey", v |-> 0, nl |-> els[e].nl]>>
                  \o UpdateKeyFrom(els, e + 1, target_fifths)

update_key_signature(els, target_fifths) == UpdateKeyFrom(els, 1, target_fifths)

transpose_from_source_key(els, key, target_instrument) ==
    IF target_instrument \notin RegisteredInstruments THEN els
    ELSE update_key_signature(
             correct_accidentals_for_key_change(els, original_key_fifths(els),
                 target_key_fifths(key, target_instrument)),
             target_key_fifths(key, target_instrument))

(***************************************************************************)
(* The typed reading of a document: its measures and their events.         *)
(***************************************************************************)
RECURSIVE TagStarts(_, _, _)
TagStarts(els, from, tag) ==
    LET k == FindTag(els, from, tag)
    IN  IF k > Len(els) THEN <<>> ELSE <<k>> \o TagStarts(els, k + 1, tag)

NoteEnd(els, k) == Min(FindTag(els, k, "endnote"), Len(els))
InNote(els, k, tag) == \E j \in k..NoteEnd(els, k) : els[j].t = tag
NoteField(els, k, tag, default) ==
    IF InNote(els, k, tag) THEN els[FindTag(els, k, tag)].v ELSE default

\* the event written by the <note> at k
EventAt(els, k) ==
    [rest |-> InNote(els, k, "rest"),
     step |-> NoteField(els, k, "step", 0),
     alter |-> NoteField(els, k, "alter", 0),
     octave |-> NoteField(els, k, "octave", 0),
     duration |-> NoteField(els, k, "duration", 0),
     type |-> NoteField(els, k, "type", 0),
     dot |-> InNote(els, k, "dot"),
     beam |-> InNote(els, k, "beam"),
     measure |-> MeasureIdx(els, k)]

\* the events of the document, in order
EventsOf(els) ==
    LET starts == TagStarts(els, 1, "note")
    IN  [i \in 1..Len(starts) |-> EventAt(els, starts[i])]

\* the measure numbers of the document, in order
MeasureNumbers(els) ==
    LET starts == TagStarts(els, 1, "measure")
    IN  [i \in 1..Len(starts) |-> els[starts[i]].v]

RECURSIVE SumDurations(_, _)
SumDurations(evs, m) ==
    IF evs = <<>> THEN 0
    ELSE (IF Head(evs).measure = m THEN Head(evs).duration ELSE 0)
         + SumDurations(Tail(evs), m)

\* the sum of the event durations of the m-th measure
MeasureDuration(els, m) == SumDurations(EventsOf(els), m)

PitchOfEvent(e) == Pitch(e.step, e.alter, e.octave)

(***************************************************************************)
(* correct_stem_directions.  A <stem> element carries 1 for "up" and 0 for  *)
(* "down".                                                                 *)
(***************************************************************************)
\* the <note> whose element holds element j, or 0
EnclosingNote(els, j) ==
    LET S == {k \in 1..j : /\ els[k].t = "note"
                           /\ FindTag(els, k, "endnote") <= Len(els)
                           /\ FindTag(els, k, "endnote") >= j}
    IN  IF S = {} THEN 0 ELSE SetMax(S)

\* correct_note_stem on every note: the stem of a pitched note goes up below the
\* middle line and down from the middle line on
CorrectStems(els, middle_semitones) ==
    [j \in 1..Len(els) |->
        LET k == EnclosingNote(els, j)
        IN  IF /\ els[j].t = "stem"
               /\ k > 0
               /\ ~InNote(els, k, "rest")
               /\ InNote(els, k, "pitch") /\ InNote(els, k, "endpitch")
               /\ InNote(els, k, "step") /\ InNote(els, k, "octave")
            THEN [els[j] EXCEPT !.v =
                    IF calculate_midi_note(NoteField(els, k, "step", 0),
                                           NoteField(els, k, "octave", 0),
                                           NoteField(els, k, "alter", 0)) < middle_semitones
                    THEN 1 ELSE 0]
            ELSE els[j]]

correct_stem_directions(els, instrument) ==
    IF instrument = "c_euphonium"
        THEN CorrectStems(els, calculate_midi_note(StepD, 3, 0))
    ELSE IF instrument \in {"eb_alto_sax", "bb_trumpet", "f_horn"}
        THEN CorrectStems(els, calculate_midi_note(StepB, 4, 0))
    ELSE els

(***************************************************************************)
(* Instrument metadata: correct_instrument_metadata and sync_part_names.   *)
(* Elements with text carry it as a string; a miscellaneous-field carries  *)
(* the sequence of the pieces its text was put together from.              *)
(***************************************************************************)
\* INSTRUMENT_CORRECTIONS[instrument]['name']
correction_name(instrument) ==
    CASE instrument = "bb_trumpet" -> "Trumpet"
      [] instrument = "concert_pitch" -> "Concert Pitch"
      [] instrument = "flute" -> "Flute"
      [] instrument = "eb_alto_sax" -> "Alto Saxophone"
      [] instrument = "f_horn" -> "Horn"
      [] instrument = "c_euphonium" -> "Euphonium"
      [] instrument = "bb_clarinet" -> "Clarinet"

\* INSTRUMENT_CORRECTIONS[instrument]['part_name']
part_name(instrument) ==
    CASE instrument = "bb_trumpet" -> "Trumpet in Bb"
      [] instrument = "concert_pitch" -> "Concert Pitch"
      [] instrument = "flute" -> "Flute"
      [] instrument = "eb_alto_sax" -> "Alto Saxophone in Eb"
      [] instrument = "f_horn" -> "Horn in F"
      [] instrument = "c_euphonium" -> "Euphonium"
      [] instrument = "bb_clarinet" -> "Clarinet in Bb"

\* INSTRUMENT_CORRECTIONS[instrument]['transpose_diatonic']
transpose_diatonic(instrument) ==
    CASE instrument = "bb_trumpet" -> -1
      [] instrument = "concert_pitch" -> 0
      [] instrument = "flute" -> 0
      [] instrument = "eb_alto_sax" -> -5
      [] instrument = "f_horn" -> -4
      [] instrument = "c_euphonium" -> 0
      [] instrument = "bb_clarinet" -> -1

\* INSTRUMENT_CORRECTIONS[instrument]['instrument_sound']
instrument_sound(instrument) ==
    CASE instrument = "bb_trumpet" -> "brass.trumpet.bflat"
      [] instrument = "concert_pitch" -> "keyboard.piano"
      [] instrument = "flute" -> "wind.flutes.flute"
      [] instrument = "eb_alto_sax" -> "reed.saxophone.alto"
      [] instrument = "f_horn" -> "brass.french-horn"
      [] instrument = "c_euphonium" -> "brass.tuba"
      [] instrument = "bb_clarinet" -> "wind.reed.clarinet.bflat"

\* INSTRUMENT_CORRECTIONS[instrument]['midi_program']
midi_program(instrument) ==
    CASE instrument = "bb_trumpet" -> 57
      [] instrument = "concert_pitch" -> 1
      [] instrument = "flute" -> 74
      [] instrument = "eb_alto_sax" -> 66
      [] instrument = "f_horn" -> 61
      [] instrument = "c_euphonium" -> 58
      [] instrument = "bb_clarinet" -> 72

\* re.search(r'<transpose>.*?<chromatic>([^<]+)</chromatic>.*?</transpose>')
existing_transpose(els) ==
    LET t == FindTag(els, 1, "transpose")
        c == FindTag(els, t, "chromatic")
        e == FindTag(els, c, "endtranspose")
    IN  IF e <= Len(els) THEN [found |-> TRUE, chromatic |-> els[c].v]
        ELSE [found |-> FALSE, chromatic |-> 0]

\* element k opens a <transpose>...</transpose> block
TransposeAt(els, k) ==
    k <= Len(els) /\ els[k].t = "transpose" /\ FindTag(els, k, "endtranspose") <= Len(els)

\* the transpose_block of the instrument; nl: a line break follows it
transpose_block(instrument, nl) ==
    <<L("transpose", 0), L("diatonic", transpose_diatonic(instrument)),
      L("chromatic", transpose_chromatic(instrument)),
      [t |-> "endtranspose", v |-> 0, nl |-> nl]>>

\* re.sub(r'\s*<transpose>.*?</transpose>', '\n' + transpose_block) from element k
\* on: the block starts a line of its own
RECURSIVE ReplaceTransposeFrom(_, _, _)
ReplaceTransposeFrom(els, k, instrument) ==
    IF k > Len(els) THEN <<>>
    ELSE IF TransposeAt(els, k)
        THEN LET e == FindTag(els, k, "endtranspose")
             IN  transpose_block(instrument, els[e].nl \/ TransposeAt(els, e + 1))
                 \o ReplaceTransposeFrom(els, e + 1, instrument)
    ELSE LET n == Max(k + 1, FindTag(els, k + 1, "transpose") - 1)
         IN  <<[els[k] EXCEPT !.nl = els[k].nl \/ TransposeAt(els, k + 1)]>>
             \o SubSeq(els, k + 1, n - 1) \o ReplaceTransposeFrom(els, n, instrument)

\* re.sub(r'(\s*</clef>\s*)', r'\1' + transpose_block + '\n') from element k on
RECURSIVE AddTransposeFrom(_, _, _)
AddTransposeFrom(els, k, instrument) ==
    IF k > Len(els) THEN <<>>
    ELSE IF els[k].t = "endclef"
        THEN <<els[k]>> \o transpose_block(instrument, TRUE)
             \o AddTransposeFrom(els, k + 1, instrument)
    ELSE SubSeq(els, k, FindTag(els, k + 1, "endclef") - 1)
         \o AddTransposeFrom(els, FindTag(els, k + 1, "endclef"), instrument)

\* re.sub(r'\s*<transpose>.*?</transpose>\s*\n?', '') from element k on: the
\* white space on both sides goes with the block
RECURSIVE RemoveTransposeFrom(_, _)
RemoveTransposeFrom(els, k) ==
    IF k > Len(els) THEN <<>>
    ELSE IF TransposeAt(els, k)
        THEN RemoveTransposeFrom(els, FindTag(els, k, "endtranspose") + 1)
    ELSE LET n == Max(k + 1, FindTag(els, k + 1, "transpose") - 1)
         IN  <<[els[k] EXCEPT !.nl = els[k].nl /\ ~TransposeAt(els, k + 1)]>>
             \o SubSeq(els, k + 1, n - 1) \o RemoveTransposeFrom(els, n)

\* "Update transposition settings - only if incorrect or missing"
CorrectTranspose(els, instrument) ==
    IF transpose_chromatic(instrument) # 0 THEN
        IF existing_transpose(els).found THEN
            IF existing_transpose(els).chromatic = transpose_chromatic(instrument)
            THEN els
            ELSE ReplaceTransposeFrom(els, 1, instrument)
        ELSE AddTransposeFrom(els, 1, instrument)
    ELSE
        IF existing_transpose(els).found THEN RemoveTransposeFrom(els, 1) ELSE els

\* re.sub(r'(<tag>)[^<]*(</tag>)', text): every element of the tag gets the text
SetText(els, tag, text) ==
    [j \in 1..Len(els) |-> IF els[j].t = tag THEN [els[j] EXCEPT !.v = text] ELSE els[j]]

\* it prints the concert key and returns the content as it is
convert_to_concert_key_signature(els, chromatic) == els

\* The documents here carry no <credit> and no <defaults> element, so the steps
\* on credits (868-934) find nothing to remove, replace or insert after.
sync_part_names(els, new_part_name) ==
    SetText(SetText(SetText(els, "miscellaneous-field", <<new_part_name>>),
                    "part-name", new_part_name),
            "instrument-name", new_part_name)

\* correct_instrument_metadata falling back on the trumpet's profile for an
\* instrument that is not registered
correct_instrument_metadata_default_profile(els, instrument_key, update_part_names) ==
    LET profile == IF instrument_key \in RegisteredInstruments THEN instrument_key
                   ELSE "bb_trumpet"
        named == SetText(CorrectTranspose(els, profile), "instrument-name",
                         correction_name(profile))
        programmed == SetText(SetText(named, "instrument-sound", instrument_sound(profile)),
                              "midi-program", midi_program(profile))
    IN  IF update_part_names THEN sync_part_names(programmed, part_name(profile))
        ELSE programmed

correct_instrument_metadata(els, instrument_key, update_part_names) ==
    IF instrument_key \notin RegisteredInstruments THEN els
    ELSE LET transposed == CorrectTranspose(els, instrument_key)
             named == SetText(transposed, "instrument-name", correction_name(instrument_key))
             sounded == SetText(named, "instrument-sound", instrument_sound(instrument_key))
             programmed == SetText(sounded, "midi-program", midi_program(instrument_key))
             keyed == IF transpose_chromatic(instrument_key) # 0
                      THEN convert_to_concert_key_signature(programmed,
                               transpose_chromatic(instrument_key))
                      ELSE programmed
         IN  IF update_part_names THEN sync_part_names(keyed, part_name(instrument_key))
             ELSE keyed

(***************************************************************************)
(* Fingering annotators: add_saxophone_fingerings and                      *)
(* add_brass_fingerings_to_accidentals.  A <fingering> element carries its *)
(* text and its placement attribute ("" when it has none); an <accidental> *)
(* carries its kind and whether it is cautionary.                          *)
(***************************************************************************)
\* ALTO_SAX_FINGERINGS: key <<step, alter, octave>>; fingering: the parts of the
\* fingering string between its blanks, each part character by character; holes:
\* LH-Thumb, LH-1, LH-2, LH-3, RH-1, RH-2, RH-3, RH-4, Octave-Key, closed or not
ALTO_SAX_FINGERINGS ==
    {[key |-> <<7, -1, 3>>, fingering |-> <<<<"1", "2", "3">>, <<"1", "2", "3", "C">>>>,
      holes |-> <<TRUE, TRUE, TRUE, TRUE, TRUE, TRUE, TRUE, TRUE, FALSE>>],
     [key |-> <<7, 0, 3>>, fingering |-> <<<<"1", "2", "3">>, <<"1", "2", "3">>>>,
      holes |-> <<TRUE, TRUE, TRUE, TRUE, TRUE, TRUE, TRUE, FALSE, FALSE>>],
     [key |-> <<1, 0, 4>>, fingering |-> <<<<"1", "2", "3">>, <<"1", "2">>>>,
      holes |-> <<TRUE, TRUE, TRUE, TRUE, TRUE, TRUE, FALSE, FALSE, FALSE>>],
     [key |-> <<1, 1, 4>>, fingering |-> <<<<"1", "2", "3">>, <<"1">>>>,
      holes |-> <<TRUE, TRUE, TRUE, TRUE, TRUE, FALSE, FALSE, FALSE, FALSE>>],
     [key |-> <<2, -1, 4>>, fingering |-> <<<<"1", "2", "3">>, <<"1">>>>,
      holes |-> <<TRUE, TRUE, TRUE, TRUE, TRUE, FALSE, FALSE, FALSE, FALSE>>],
     [key |-> <<2, 0, 4>>, fingering |-> <<<<"1", "2", "3">>>>,
      holes |-> <<TRUE, TRUE, TRUE, TRUE, FALSE, FALSE, FALSE, FALSE, FALSE>>],
     [key |-> <<2, 1, 4>>, fingering |-> <<<<"1", "2">>>>,
      holes |-> <<TRUE, TRUE, TRUE, FALSE, FALSE, FALSE, FALSE, FALSE, FALSE>>],
     [key |-> <<3, -1, 4>>, fingering |-> <<<<"1", "2">>>>,
      holes |-> <<TRUE, TRUE, TRUE, FALSE, FALSE, FALSE, FALSE, FALSE, FALSE>>],
     [key |-> <<3, 0, 4>>, fingering |-> <<<<"1">>>>,
      holes |-> <<TRUE, TRUE, FALSE, FALSE, FALSE, FALSE, FALSE, FALSE, FALSE>>],
     [key |-> <<4, 0, 4>>, fingering |-> <<<<"1">>, <<"1">>>>,
      holes |-> <<TRUE, TRUE, FALSE, FALSE, TRUE, FALSE, FALSE, FALSE, FALSE>>],
     [key |-> <<4, 1, 4>>, fingering |-> <<<<"1", "2", "3">>, <<"1", "2">>, <<"L", "o", "w", "C">>>>,
      holes |-> <<TRUE, TRUE, TRUE, TRUE, TRUE, TRUE, FALSE, FALSE, FALSE>>],
     [key |-> <<5, -1, 4>>, fingering |-> <<<<"1", "2", "3">>, <<"1", "2">>, <<"L", "o", "w", "C">>>>,
      holes |-> <<TRUE, TRUE, TRUE, TRUE, TRUE, TRUE, FALSE, FALSE, FALSE>>],
     [key |-> <<5, 0, 4>>, fingering |-> <<<<"T">>>>,
      holes |-> <<TRUE, FALSE, FALSE, FALSE, FALSE, FALSE, FALSE, FALSE, FALSE>>],
     [key |-> <<5, 1, 4>>, fingering |-> <<<<"2", "3">>, <<"1", "2", "3">>>>,
      holes |-> <<TRUE, FALSE, TRUE, TRUE, TRUE, TRUE, TRUE, FALSE, FALSE>>],
     [key |-> <<6, -1, 4>>, fingering |-> <<<<"2", "3">>, <<"1", "2", "3">>>>,
      holes |-> <<TRUE, FALSE, TRUE, TRUE, TRUE, TRUE, TRUE, FALSE, FALSE>>],
     [key |-> <<6, 0, 4>>, fingering |-> <<<<"2">>, <<"1", "2", "3">>>>,
      holes |-> <<TRUE, FALSE, TRUE, FALSE, TRUE, TRUE, TRUE, FALSE, FALSE>>],
     [key |-> <<6, 1, 4>>, fingering |-> <<<<"2">>, <<"1", "2">>>>,
      holes |-> <<TRUE, FALSE, TRUE, FALSE, TRUE, TRUE, FALSE, FALSE, FALSE>>],
     [key |-> <<7, -1, 4>>, fingering |-> <<<<"2">>, <<"1", "2">>>>,
      holes |-> <<TRUE, FALSE, TRUE, FALSE, TRUE, TRUE, FALSE, FALSE, FALSE>>],
     [key |-> <<7, 0, 4>>, fingering |-> <<<<"2">>>>,
      holes |-> <<TRUE, FALSE, TRUE, FALSE, FALSE, FALSE, FALSE, FALSE, FALSE>>],
     [key |-> <<1, 0, 5>>, fingering |-> <<<<"2">>, <<"1">>>>,
      holes |-> <<TRUE, FALSE, TRUE, FALSE, TRUE, FALSE, FALSE, FALSE, FALSE>>],
     [key |-> <<1, 1, 5>>, fingering |-> <<<<"O", "c", "t">>>>,
      holes |-> <<TRUE, FALSE, FALSE, FALSE, FALSE, FALSE, FALSE, FALSE, TRUE>>],
     [key |-> <<2, -1, 5>>, fingering |-> <<<<"O", "c", "t">>>>,
      holes |-> <<TRUE, FALSE, FALSE, FALSE, FALSE, FALSE, FALSE, FALSE, TRUE>>],
     [key |-> <<2, 0, 5>>, fingering |-> <<<<"1", "2", "3">>, <<"1", "2", "3">>, <<"O", "c", "t">>>>,
      holes |-> <<TRUE, TRUE, TRUE, TRUE, TRUE, TRUE, TRUE, FALSE, TRUE>>],
     [key |-> <<2, 1, 5>>, fingering |-> <<<<"1", "2">>, <<"1">>, <<"O", "c", "t">>>>,
      holes |-> <<TRUE, TRUE, TRUE, FALSE, TRUE, FALSE, FALSE, FALSE, TRUE>>],
     [key |-> <<3, -1, 5>>, fingering |-> <<<<"1", "2">>, <<"1">>, <<"O", "c", "t">>>>,
      holes |-> <<TRUE, TRUE, TRUE, FALSE, TRUE, FALSE, FALSE, FALSE, TRUE>>],
     [key |-> <<3, 0, 5>>, fingering |-> <<<<"1", "2">>, <<"1", "2">>, <<"O", "c", "t">>>>,
      holes |-> <<TRUE, TRUE, TRUE, FALSE, TRUE, TRUE, FALSE, FALSE, TRUE>>],
     [key |-> <<4, 0, 5>>, fingering |-> <<<<"1">>, <<"1", "2">>, <<"O", "c", "t">>>>,
      holes |-> <<TRUE, TRUE, FALSE, FALSE, TRUE, TRUE, FALSE, FALSE, TRUE>>],
     [key |-> <<4, 1, 5>>, fingering |-> <<<<"1">>, <<"2">>, <<"O", "c", "t">>>>,
      holes |-> <<TRUE, TRUE, FALSE, TRUE, FALSE, FALSE, FALSE, FALSE, TRUE>>],
     [key |-> <<5, -1, 5>>, fingering |-> <<<<"1">>, <<"2">>, <<"O", "c", "t">>>>,
      holes |-> <<TRUE, TRUE, FALSE, TRUE, FALSE, FALSE, FALSE, FALSE, TRUE>>],
     [key |-> <<5, 0, 5>>, fingering |-> <<<<"O", "c", "t">>>>,
      holes |-> <<TRUE, FALSE, FALSE, FALSE, FALSE, FALSE, FALSE, FALSE, TRUE>>],
     [key |-> <<6, 0, 5>>, fingering |-> <<<<"2">>, <<"1", "2", "3">>, <<"O", "c", "t">>>>,
      holes |-> <<TRUE, FALSE, TRUE, FALSE, TRUE, TRUE, TRUE, FALSE, TRUE>>],
     [key |-> <<7, 0, 5>>, fingering |-> <<<<"2">>, <<"O", "c", "t">>>>,
      holes |-> <<TRUE, FALSE, TRUE, FALSE, FALSE, FALSE, FALSE, FALSE, TRUE>>]}

\* BB_TRUMPET_FINGERINGS: the valve combination of every written pitch of the chart
BB_TRUMPET_FINGERINGS ==
    {[key |-> <<4, 1, 3>>, fingering |-> "2"], [key |-> <<5, 0, 3>>, fingering |-> "0"],
     [key |-> <<5, 1, 3>>, fingering |-> "23"], [key |-> <<6, -1, 3>>, fingering |-> "23"],
     [key |-> <<6, 0, 3>>, fingering |-> "12"], [key |-> <<6, 1, 3>>, fingering |-> "1"],
     [key |-> <<7, -1, 3>>, fingering |-> "1"], [key |-> <<7, 0, 3>>, fingering |-> "2"],
     [key |-> <<1, 0, 4>>, fingering |-> "0"], [key |-> <<1, 1, 4>>, fingering |-> "23"],
     [key |-> <<2, -1, 4>>, fingering |-> "23"], [key |-> <<2, 0, 4>>, fingering |-> "13"],
     [key |-> <<2, 1, 4>>, fingering |-> "2"], [key |-> <<3, -1, 4>>, fingering |-> "2"],
     [key |-> <<3, 0, 4>>, fingering |-> "12"], [key |-> <<4, 0, 4>>, fingering |-> "1"],
     [key |-> <<4, 1, 4>>, fingering |-> "2"], [key |-> <<5, -1, 4>>, fingering |-> "2"],
     [key |-> <<5, 0, 4>>, fingering |-> "0"], [key |-> <<5, 1, 4>>, fingering |-> "23"],
     [key |-> <<6, -1, 4>>, fingering |-> "23"], [key |-> <<6, 0, 4>>, fingering |-> "12"],
     [key |-> <<6, 1, 4>>, fingering |-> "1"], [key |-> <<7, -1, 4>>, fingering |-> "1"],
     [key |-> <<7, 0, 4>>, fingering |-> "2"], [key |-> <<1, 0, 5>>, fingering |-> "0"],
     [key |-> <<1, 1, 5>>, fingering |-> "23"], [key |-> <<2, -1, 5>>, fingering |-> "23"],
     [key |-> <<2, 0, 5>>, fingering |-> "13"], [key |-> <<2, 1, 5>>, fingering |-> "2"],
     [key |-> <<3, -1, 5>>, fingering |-> "2"], [key |-> <<3, 0, 5>>, fingering |-> "12"],
     [key |-> <<4, 0, 5>>, fingering |-> "1"], [key |-> <<4, 1, 5>>, fingering |-> "2"],
     [key |-> <<5, -1, 5>>, fingering |-> "2"], [key |-> <<5, 0, 5>>, fingering |-> "0"]}

\* F_HORN_FINGERINGS: the valve combination of every written pitch of the chart
F_HORN_FINGERINGS ==
    {[key |-> <<7, 0, 3>>, fingering |-> "123"], [key |-> <<1, 0, 4>>, fingering |-> "12"],
     [key |-> <<1, 1, 4>>, fingering |-> "2"], [key |-> <<2, -1, 4>>, fingering |-> "2"],
     [key |-> <<2, 0, 4>>, fingering |-> "1"], [key |-> <<2, 1, 4>>, fingering |-> "23"],
     [key |-> <<3, -1, 4>>, fingering |-> "23"], [key |-> <<3, 0, 4>>, fingering |-> "12"],
     [key |-> <<4, 0, 4>>, fingering |-> "1"], [key |-> <<4, 1, 4>>, fingering |-> "2"],
     [key |-> <<5, -1, 4>>, fingering |-> "2"], [key |-> <<5, 0, 4>>, fingering |-> "0"],
     [key |-> <<5, 1, 4>>, fingering |-> "23"], [key |-> <<6, -1, 4>>, fingering |-> "23"],
     [key |-> <<6, 0, 4>>, fingering |-> "12"], [key |-> <<6, 1, 4>>, fingering |-> "1"],
     [key |-> <<7, -1, 4>>, fingering |-> "1"], [key |-> <<7, 0, 4>>, fingering |-> "2"],
     [key |-> <<1, 0, 5>>, fingering |-> "0"], [key |-> <<1, 1, 5>>, fingering |-> "23"],
     [key |-> <<2, -1, 5>>, fingering |-> "23"], [key |-> <<2, 0, 5>>, fingering |-> "12"],
     [key |-> <<2, 1, 5>>, fingering |-> "1"], [key |-> <<3, -1, 5>>, fingering |-> "1"],
     [key |-> <<3, 0, 5>>, fingering |-> "2"], [key |-> <<4, 0, 5>>, fingering |-> "0"],
     [key |-> <<4, 1, 5>>, fingering |-> "23"], [key |-> <<5, -1, 5>>, fingering |-> "23"],
     [key |-> <<5, 0, 5>>, fingering |-> "12"], [key |-> <<5, 1, 5>>, fingering |-> "1"],
     [key |-> <<6, -1, 5>>, fingering |-> "1"], [key |-> <<6, 0, 5>>, fingering |-> "2"],
     [key |-> <<6, 1, 5>>, fingering |-> "0"], [key |-> <<7, -1, 5>>, fingering |-> "0"],
     [key |-> <<7, 0, 5>>, fingering |-> "23"], [key |-> <<1, 0, 6>>, fingering |-> "12"]}

\* C_EUPHONIUM_FINGERINGS: the valve combination of every written pitch of the chart
C_EUPHONIUM_FINGERINGS ==
    {[key |-> <<3, 0, 2>>, fingering |-> "123"], [key |-> <<4, 0, 2>>, fingering |-> "13"],
     [key |-> <<4, 1, 2>>, fingering |-> "23"], [key |-> <<5, -1, 2>>, fingering |-> "23"],
     [key |-> <<5, 0, 2>>, fingering |-> "12"], [key |-> <<5, 1, 2>>, fingering |-> "1"],
     [key |-> <<6, -1, 2>>, fingering |-> "1"], [key |-> <<6, 0, 2>>, fingering |-> "2"],
     [key |-> <<6, 1, 2>>, fingering |-> "0"], [key |-> <<7, -1, 2>>, fingering |-> "0"],
     [key |-> <<7, 0, 2>>, fingering |-> "123"], [key |-> <<1, 0, 3>>, fingering |-> "13"],
     [key |-> <<1, 1, 3>>, fingering |-> "23"], [key |-> <<2, -1, 3>>, fingering |-> "23"],
     [key |-> <<2, 0, 3>>, fingering |-> "12"], [key |-> <<2, 1, 3>>, fingering |-> "1"],
     [key |-> <<3, -1, 3>>, fingering |-> "1"], [key |-> <<3, 0, 3>>, fingering |-> "2"],
     [key |-> <<4, 0, 3>>, fingering |-> "0"], [key |-> <<4, 1, 3>>, fingering |-> "23"],
     [key |-> <<5, -1, 3>>, fingering |-> "23"], [key |-> <<5, 0, 3>>, fingering |-> "12"],
     [key |-> <<5, 1, 3>>, fingering |-> "1"], [key |-> <<6, -1, 3>>, fingering |-> "1"],
     [key |-> <<6, 0, 3>>, fingering |-> "2"], [key |-> <<6, 1, 3>>, fingering |-> "0"],
     [key |-> <<7, -1, 3>>, fingering |-> "0"], [key |-> <<7, 0, 3>>, fingering |-> "23"],
     [key |-> <<1, 0, 4>>, fingering |-> "12"], [key |-> <<1, 1, 4>>, fingering |-> "1"],
     [key |-> <<2, -1, 4>>, fingering |-> "1"], [key |-> <<2, 0, 4>>, fingering |-> "2"],
     [key |-> <<2, 1, 4>>, fingering |-> "0"], [key |-> <<3, -1, 4>>, fingering |-> "0"],
     [key |-> <<3, 0, 4>>, fingering |-> "23"], [key |-> <<4, 0, 4>>, fingering |-> "12"],
     [key |-> <<4, 1, 4>>, fingering |-> "1"], [key |-> <<5, -1, 4>>, fingering |-> "1"],
     [key |-> <<5, 0, 4>>, fingering |-> "2"], [key |-> <<5, 1, 4>>, fingering |-> "0"],
     [key |-> <<6, -1, 4>>, fingering |-> "0"], [key |-> <<6, 0, 4>>, fingering |-> "23"],
     [key |-> <<6, 1, 4>>, fingering |-> "12"], [key |-> <<7, -1, 4>>, fingering |-> "12"],
     [key |-> <<7, 0, 4>>, fingering |-> "1"], [key |-> <<1, 0, 5>>, fingering |-> "2"],
     [key |-> <<1, 1, 5>>, fingering |-> "0"], [key |-> <<2, -1, 5>>, fingering |-> "0"],
     [key |-> <<2, 0, 5>>, fingering |-> "23"], [key |-> <<2, 1, 5>>, fingering |-> "12"],
     [key |-> <<3, -1, 5>>, fingering |-> "12"], [key |-> <<3, 0, 5>>, fingering |-> "1"],
     [key |-> <<4, 0, 5>>, fingering |-> "2"], [key |-> <<4, 1, 5>>, fingering |-> "0"],
     [key |-> <<5, -1, 5>>, fingering |-> "0"]}
\* "fingering_key in chart" and chart[fingering_key]
InChart(chart, key) == \E e \in chart : e.key = key
ChartEntry(chart, key) == CHOOSE e \in chart : e.key = key

\* "First register notes - familiar to beginners (no fingerings needed)"
familiar_notes ==
    {<<StepB, -1, 3>>, <<StepB, 0, 3>>, <<StepC, 0, 4>>, <<StepD, 0, 4>>, <<StepE, 0, 4>>,
     <<StepF, 0, 4>>, <<StepG, 0, 4>>, <<StepA, 0, 4>>, <<StepB, 0, 4>>, <<StepC, 0, 5>>}

\* "'<tag>' in note_content"
Holds(block, tag) == \E j \in 1..Len(block) : block[j].t = tag

\* "'<fingering>' in note_content": a fingering element without attributes
HasPlainFingering(block) ==
    \E j \in 1..Len(block) : block[j].t = "fingering" /\ block[j].v.placement = ""

\* step, alter and octave of the first <pitch>...</pitch> of a note block
PitchKey(block) ==
    LET p == FindTag(block, 1, "pitch")
        e == FindTag(block, p, "endpitch")
        s == FindTag(block, p, "step")
        a == FindTag(block, p, "alter")
        o == FindTag(block, p, "octave")
    IN  IF e <= Len(block) /\ s < e /\ o < e
        THEN [found |-> TRUE,
              key |-> <<block[s].v, IF a < e THEN block[a].v ELSE 0, block[o].v>>]
        ELSE [found |-> FALSE, key |-> <<0, 0, 0>>]

Digits == {"0", "1", "2", "3", "4", "5", "6", "7", "8", "9"}

\* the fingering_elements of one part of the fingering string
PartElements(part) ==
    IF part = <<"O", "c", "t">> THEN <<"8va">>
    ELSE IF part = <<"L", "o", "w", "C">> THEN <<"C">>
    ELSE SelectSeq(part, LAMBDA c : c \in Digits \cup {"C"})

RECURSIVE FingeringElements(_)
FingeringElements(parts) ==
    IF parts = <<>> THEN <<>>
    ELSE PartElements(Head(parts)) \o FingeringElements(Tail(parts))

Reverse(s) == [i \in 1..Len(s) |-> s[Len(s) + 1 - i]]

PlainFingering(text) == L("fingering", [text |-> text, placement |-> ""])

RECURSIVE HoleElements(_)
HoleElements(holes) ==
    IF holes = <<>> THEN <<>>
    ELSE <<L("hole", 0), L("hole-closed", IF Head(holes) THEN "yes" ELSE "no"),
           L("hole-shape", "circle"), L("endhole", 0)>> \o HoleElements(Tail(holes))

\* fingering_xml: the fingers bottom to top for the styles numbers and both, then
\* one <hole> a hole for the styles holes and both
fingering_xml(fingering_data, fingering_style) ==
    (IF fingering_style \in {"numbers", "both"}
     THEN IF fingering_data.fingering = <<>> THEN <<PlainFingering("T")>>
          ELSE LET fingering_elements == Reverse(FingeringElements(fingering_data.fingering))
               IN  [i \in 1..Len(fingering_elements) |-> PlainFingering(fingering_elements[i])]
     ELSE <<>>)
    \o (IF fingering_style \in {"holes", "both"} THEN HoleElements(fingering_data.holes)
        ELSE <<>>)

\* re.sub(r'(<tag[^>]*>)', r'\1\n' + xml): xml goes in after every opening tag
RECURSIVE InsertAfterTag(_, _, _)
InsertAfterTag(block, tag, xml) ==
    IF block = <<>> THEN <<>>
    ELSE IF Head(block).t = tag
        THEN <<[Head(block) EXCEPT !.nl = TRUE]>> \o xml \o InsertAfterTag(Tail(block), tag, xml)
    ELSE <<Head(block)>> \o InsertAfterTag(Tail(block), tag, xml)

\* add_fingering_to_note on the block from <note> to </note>.  Without a
\* <notations> element the substitution r'(.*)(  </note>)' is tried on the text
\* inside the note, which holds no </note>: the note stays as it is.
add_fingering_to_note(block, fingering_style) ==
    IF Holds(block, "technical") /\ HasPlainFingering(block) THEN block
    ELSE IF ~PitchKey(block).found THEN block
    ELSE IF ~InChart(ALTO_SAX_FINGERINGS, PitchKey(block).key) THEN block
    ELSE IF PitchKey(block).key \in familiar_notes THEN block
    ELSE LET xml == fingering_xml(ChartEntry(ALTO_SAX_FINGERINGS, PitchKey(block).key),
                                  fingering_style)
         IN  IF Holds(block, "notations")
             THEN IF Holds(block, "technical")
                  THEN InsertAfterTag(block, "technical", xml)
                  ELSE InsertAfterTag(block, "notations",
                           <<L("technical", 0)>> \o xml \o <<L("endtechnical", 0)>>)
             ELSE block

\* re.sub(r'<note[^>]*>(.*?)</note>', add_fingering_to_note) from element k on
RECURSIVE AddSaxophoneFrom(_, _, _)
AddSaxophoneFrom(els, k, fingering_style) ==
    IF k > Len(els) THEN <<>>
    ELSE IF els[k].t = "note" /\ FindTag(els, k, "endnote") <= Len(els)
        THEN add_fingering_to_note(SubSeq(els, k, FindTag(els, k, "endnote")), fingering_style)
             \o AddSaxophoneFrom(els, FindTag(els, k, "endnote") + 1, fingering_style)
    ELSE SubSeq(els, k, FindTag(els, k + 1, "note") - 1)
         \o AddSaxophoneFrom(els, FindTag(els, k + 1, "note"), fingering_style)

add_saxophone_fingerings(els, fingering_style) == AddSaxophoneFrom(els, 1, fingering_style)

\* add_trumpet_fingering_to_note on the block from <note> to </note>; a note has
\* at most one <notations> element
add_trumpet_fingering_to_note(block, fingering_chart) ==
    IF HasPlainFingering(block) THEN block
    ELSE IF ~Holds(block, "accidental") THEN block
    ELSE IF ~PitchKey(block).found THEN block
    ELSE IF ~InChart(fingering_chart, PitchKey(block).key) THEN block
    ELSE LET technical ==
                 <<L("technical", 0),
                   L("fingering", [text |-> ChartEntry(fingering_chart,
                                                       PitchKey(block).key).fingering,
                                   placement |-> "above"]),
                   L("endtechnical", 0)>>
             pe == FindTag(block, 1, "endpitch")
             ne == FindTag(block, FindTag(block, pe + 1, "notations"), "endnotations")
         IN  IF ne <= Len(block)
             THEN SubSeq(block, 1, ne - 1) \o technical \o SubSeq(block, ne, Len(block))
             ELSE SubSeq(block, 1, pe - 1) \o <<[block[pe] EXCEPT !.nl = TRUE]>>
                  \o <<L("notations", 0)>> \o technical
                  \o <<[t |-> "endnotations", v |-> 0, nl |-> block[pe].nl]>>
                  \o SubSeq(block, pe + 1, Len(block))

\* re.sub(r'<note[^>]*>(.*?)</note>', add_trumpet_fingering_to_note) from k on
RECURSIVE AddBrassFrom(_, _, _)
AddBrassFrom(els, k, fingering_chart) ==
    IF k > Len(els) THEN <<>>
    ELSE IF els[k].t = "note" /\ FindTag(els, k, "endnote") <= Len(els)
        THEN add_trumpet_fingering_to_note(SubSeq(els, k, FindTag(els, k, "endnote")),
                                           fingering_chart)
             \o AddBrassFrom(els, FindTag(els, k, "endnote") + 1, fingering_chart)
    ELSE SubSeq(els, k, FindTag(els, k + 1, "note") - 1)
         \o AddBrassFrom(els, FindTag(els, k + 1, "note"), fingering_chart)

add_brass_fingerings_to_accidentals(els, instrument) ==
    IF instrument = "bb_trumpet" THEN AddBrassFrom(els, 1, BB_TRUMPET_FINGERINGS)
    ELSE IF instrument = "f_horn" THEN AddBrassFrom(els, 1, F_HORN_FINGERINGS)
    ELSE IF instrument = "c_euphonium" THEN AddBrassFrom(els, 1, C_EUPHONIUM_FINGERINGS)
    ELSE els

(***************************************************************************)
(* Courtesy accidentals: add_courtesy_accidentals.  note_history maps a    *)
(* note name to its record; NoMeasure stands for None.                     *)
(***************************************************************************)
NoMeasure == 0

\* instrument_home_keys.get(source_instrument, {'flats': [], 'sharps': []})
instrument_home_keys(instrument) ==
    CASE instrument = "bb_trumpet" -> [flats |-> {}, sharps |-> {}]
      [] instrument = "f_horn" -> [flats |-> {}, sharps |-> {}]
      [] instrument = "c_euphonium" -> [flats |-> {StepB, StepE}, sharps |-> {}]
      [] instrument = "eb_alto_sax" -> [flats |-> {}, sharps |-> {StepF}]
      [] OTHER -> [flats |-> {}, sharps |-> {}]

\* the number of the <measure> that holds element k
MeasureNumAt(els, k) == els[SetMax({j \in 1..k : els[j].t = "measure"})].v

\* element k opens a note of a measure that has a pitch with a step
IsCourtesyNote(els, k) ==
    /\ els[k].t = "note"
    /\ FindTag(els, k, "endnote") <= Len(els)
    /\ \E j \in 1..k : els[j].t = "measure"
    /\ LET block == SubSeq(els, k, FindTag(els, k, "endnote"))
           p == FindTag(block, 1, "pitch")
       IN  /\ FindTag(block, p, "endpitch") <= Len(block)
           /\ FindTag(block, p, "step") < FindTag(block, p, "endpitch")

\* what the passes read in the note at k: note_name, alter_value, whether it has
\* an <accidental> element, measure_num
CourtesyNoteAt(els, k) ==
    LET block == SubSeq(els, k, FindTag(els, k, "endnote"))
        p == FindTag(block, 1, "pitch")
        e == FindTag(block, p, "endpitch")
        a == FindTag(block, p, "alter")
    IN  [note_name |-> block[FindTag(block, p, "step")].v,
         alter_value |-> IF a < e THEN block[a].v ELSE 0,
         accidental |-> Holds(block, "accidental"),
         measure_num |-> MeasureNumAt(els, k)]

\* the pitched notes of the measures, in document order
CourtesyNotes(els) ==
    LET starts == SelectSeq(TagStarts(els, 1, "note"), LAMBDA k : IsCourtesyNote(els, k))
    IN  [i \in 1..Len(starts) |-> CourtesyNoteAt(els, starts[i])]

EmptyHistory ==
    [s \in Steps |-> [seen |-> FALSE, first_sharp |-> NoMeasure, first_flat |-> NoMeasure,
                      first_natural |-> NoMeasure, last_written_accidental |-> NoMeasure,
                      needs_courtesy |-> {}]]

\* a first occurrence that flags its measure for every first sharp
flags_first_every_sharp(note_name, alter_value, home_key) ==
    \/ alter_value = 1
    \/ alter_value = -1 /\ note_name \in home_key.flats
    \/ alter_value = 0 /\ note_name \in home_key.sharps \cup home_key.flats

\* the first sharp, flat or natural of a note name flags its measure: "if
\* note_name in natural_sharps", "if note_name in natural_flats", "if note_name
\* in natural_sharps or note_name in natural_flats"
flags_first(note_name, alter_value, home_key) ==
    \/ alter_value = 1 /\ note_name \in home_key.sharps
    \/ alter_value = -1 /\ note_name \in home_key.flats
    \/ alter_value = 0 /\ note_name \in home_key.sharps \cup home_key.flats

\* the first pass on one note
FirstPassNote(history, n, home_key) ==
    LET old == history[n.note_name]
        first == \/ n.alter_value = 1 /\ old.first_sharp = NoMeasure
                 \/ n.alter_value = -1 /\ old.first_flat = NoMeasure
                 \/ n.alter_value = 0 /\ old.first_natural = NoMeasure
        new == [seen |-> TRUE,
                first_sharp |-> IF first /\ n.alter_value = 1 THEN n.measure_num
                                ELSE old.first_sharp,
                first_flat |-> IF first /\ n.alter_value = -1 THEN n.measure_num
                               ELSE old.first_flat,
                first_natural |-> IF first /\ n.alter_value = 0 THEN n.measure_num
                                  ELSE old.first_natural,
                last_written_accidental |-> IF n.accidental THEN n.measure_num
                                            ELSE old.last_written_accidental,
                needs_courtesy |->
                    IF first /\ flags_first(n.note_name, n.alter_value, home_key)
                    THEN old.needs_courtesy \cup {n.measure_num}
                    ELSE old.needs_courtesy]
    IN  [history EXCEPT ![n.note_name] = new]

\* "First pass: collect note history and written accidentals"
RECURSIVE FirstPass(_, _, _)
FirstPass(notes, history, home_key) ==
    IF notes = <<>> THEN history
    ELSE FirstPass(Tail(notes), FirstPassNote(history, Head(notes), home_key), home_key)

\* the second pass on one note; st.processed is processed_notes
SecondPassNote(st, n) ==
    LET note_key == <<n.note_name, n.measure_num, n.alter_value>>
        old == st.history[n.note_name]
    IN  IF note_key \in st.processed THEN st
        ELSE IF /\ old.seen
                /\ old.last_written_accidental # NoMeasure
                /\ n.measure_num > old.last_written_accidental
                /\ n.measure_num \notin old.needs_courtesy
            THEN [history |-> [st.history EXCEPT ![n.note_name] =
                                  [old EXCEPT !.needs_courtesy = @ \cup {n.measure_num},
                                              !.last_written_accidental = NoMeasure]],
                  processed |-> st.processed \cup {note_key}]
        ELSE [st EXCEPT !.processed = @ \cup {note_key}]

\* "Second pass: ... check for post-written-accidental cases"
RECURSIVE SecondPass(_, _)
SecondPass(notes, st) ==
    IF notes = <<>> THEN st.history
    ELSE SecondPass(Tail(notes), SecondPassNote(st, Head(notes)))

\* a test that never finds the key in courtesy_added_in_measure
courtesy_never_added(courtesy_added_in_measure, note_name, alter_value) == FALSE

\* "if courtesy_key in courtesy_added_in_measure"
courtesy_added(courtesy_added_in_measure, note_name, alter_value) ==
    <<note_name, alter_value>> \in courtesy_added_in_measure

\* a variant that does not look for an <accidental> in the note
GetsCourtesyDespiteAccidental(els, k, note_history, courtesy_added_in_measure) ==
    /\ IsCourtesyNote(els, k)
    /\ note_history[CourtesyNoteAt(els, k).note_name].seen
    /\ CourtesyNoteAt(els, k).measure_num
           \in note_history[CourtesyNoteAt(els, k).note_name].needs_courtesy
    /\ ~courtesy_added(courtesy_added_in_measure, CourtesyNoteAt(els, k).note_name,
                       CourtesyNoteAt(els, k).alter_value)

\* add_courtesy_to_note decides to write a courtesy accidental into the note at k
GetsCourtesy(els, k, note_history, courtesy_added_in_measure) ==
    /\ IsCourtesyNote(els, k)
    /\ ~CourtesyNoteAt(els, k).accidental
    /\ note_history[CourtesyNoteAt(els, k).note_name].seen
    /\ CourtesyNoteAt(els, k).measure_num
           \in note_history[CourtesyNoteAt(els, k).note_name].needs_courtesy
    /\ ~courtesy_added(courtesy_added_in_measure, CourtesyNoteAt(els, k).note_name,
                       CourtesyNoteAt(els, k).alter_value)

courtesy_type(alter_value) ==
    CASE alter_value = 1 -> "sharp"
      [] alter_value = -1 -> "flat"
      [] alter_value = 0 -> "natural"

\* the note block at k with '\n        <accidental cautionary="yes">' after its
\* </pitch>
WithCourtesy(els, k) ==
    LET block == SubSeq(els, k, FindTag(els, k, "endnote"))
        pe == FindTag(block, 1, "endpitch")
    IN  SubSeq(block, 1, pe - 1) \o <<[block[pe] EXCEPT !.nl = TRUE]>>
        \o <<[t |-> "accidental",
              v |-> [kind |-> courtesy_type(CourtesyNoteAt(els, k).alter_value),
                     cautionary |-> TRUE],
              nl |-> block[pe].nl]>>
        \o SubSeq(block, pe + 1, Len(block))

\* "Third pass": process_measure_for_courtesy on every measure, from element k
\* on; courtesy_added_in_measure starts empty in every measure
RECURSIVE CourtesyFrom(_, _, _, _)
CourtesyFrom(els, k, note_history, courtesy_added_in_measure) ==
    IF k > Len(els) THEN <<>>
    ELSE IF els[k].t = "measure"
        THEN <<els[k]>> \o CourtesyFrom(els, k + 1, note_history, {})
    ELSE IF els[k].t = "note" /\ FindTag(els, k, "endnote") <= Len(els)
        THEN LET e == FindTag(els, k, "endnote")
                 n == CourtesyNoteAt(els, k)
             IN  IF GetsCourtesy(els, k, note_history, courtesy_added_in_measure)
                 THEN IF n.alter_value \in {1, -1, 0}
                      THEN WithCourtesy(els, k)
                           \o CourtesyFrom(els, e + 1, note_history,
                                  courtesy_added_in_measure
                                      \cup {<<n.note_name, n.alter_value>>})
                      ELSE SubSeq(els, k, e)
                           \o CourtesyFrom(els, e + 1, note_history,
                                  courtesy_added_in_measure
                                      \cup {<<n.note_name, n.alter_value>>})
                 ELSE SubSeq(els, k, e)
                      \o CourtesyFrom(els, e + 1, note_history, courtesy_added_in_measure)
    ELSE SubSeq(els, k, FindAny(els, k + 1, {"measure", "note"}) - 1)
         \o CourtesyFrom(els, FindAny(els, k + 1, {"measure", "note"}), note_history,
                         courtesy_added_in_measure)

\* content: the score it returns; log: note_history after the first and after
\* the second pass
add_courtesy_accidentals(els, instrument) ==
    LET first == FirstPass(CourtesyNotes(els), EmptyHistory, instrument_home_keys(instrument))
        second == SecondPass(CourtesyNotes(els), [history |-> first, processed |-> {}])
    IN  [content |-> CourtesyFrom(els, 1, second, {}), log |-> <<first, second>>]

(***************************************************************************)
(* The passes on rehearsal marks, credits, rests and breaks, and the       *)
(* closing update of the metadata.  The documents here carry no            *)
(* <rehearsal>, <credit>, <defaults>, <print>, <measure-style>, <software> *)
(* or whole-measure rest, which are all these passes look for.             *)
(***************************************************************************)
fix_rehearsal_marks(els, mode) == els

add_title_from_filename(els) == els

clean_credit_text(els) == els

remove_page_system_breaks(els) == els

\* re.sub(r'(<software>.*?)(</software>)', r'\1 - Simplified by MusicXML
\* Simplifier\2')
_update_software_credit(els) == els

\* re.sub(r'(<miscellaneous-field name="partName">.*?)(</miscellaneous-field>)',
\* r'\1 - Simplified\2'), then the software credit
_update_metadata(els) ==
    _update_software_credit(
        [j \in 1..Len(els) |->
            IF els[j].t = "miscellaneous-field"
            THEN [els[j] EXCEPT !.v = Append(@, " - Simplified")]
            ELSE els[j]])

(***************************************************************************)
(* validate_xml_structure: ElementTree's reading of the written file.      *)
(***************************************************************************)
\* the elements that hold other elements; every other element is a leaf
Containers ==
    {"score-timewise", "part", "measure", "attributes", "key", "clef", "transpose", "note",
     "pitch", "notations", "technical", "hole", "identification", "miscellaneous",
     "score-instrument", "midi-instrument"}

\* the name of the element that e opens, or ""
OpenName(e) ==
    IF e.t = "other"
    THEN CASE e.v = 2 -> "score-partwise"
           [] e.v = 3 -> "part-list"
           [] e.v = 4 -> "score-part"
           [] e.v = 8 -> "part"
           [] OTHER -> ""
    ELSE IF e.t \in Containers THEN e.t ELSE ""

\* the name of the element that e closes, or ""
CloseName(e) ==
    IF e.t = "other"
    THEN CASE e.v = 6 -> "score-part"
           [] e.v = 7 -> "part-list"
           [] e.v = 9 -> "part"
           [] e.v = 10 -> "score-partwise"
           [] OTHER -> ""
    ELSE IF \E c \in Containers : e.t = "end" \o c
        THEN CHOOSE c \in Containers : e.t = "end" \o c
    ELSE ""

\* the number of elements open after element k, for k in 0..Len(els)
Depths(els) ==
    LET n == Len(els)
        change == SubSeq([k \in 1..n |->
                             IF OpenName(els[k]) # "" THEN 1
                             ELSE IF CloseName(els[k]) # "" THEN -1 ELSE 0], 1, n)
        after == SubSeq([k \in 1..n |->
                            Cardinality({i \in 1..k : change[i] = 1})
                            - Cardinality({i \in 1..k : change[i] = -1})], 1, n)
    IN  [k \in 0..n |-> IF k = 0 THEN 0 ELSE after[k]]

\* the element that the closing element at j closes, or 0
OpenerOf(els, d, j) ==
    LET S == {i \in 1..(j - 1) : OpenName(els[i]) # "" /\ d[i - 1] = d[j]}
    IN  IF S = {} THEN 0 ELSE CHOOSE i \in S : \A x \in S : x <= i

\* ET.parse succeeds: one root element, every element closed by its own closing
\* tag, nothing but the XML declaration outside the root
WellFormed(els) ==
    LET d == Depths(els)
    IN  /\ Cardinality({i \in 1..Len(els) : OpenName(els[i]) # "" /\ d[i] = 1}) = 1
        /\ d[Len(els)] = 0
        /\ \A k \in 1..Len(els) :
              /\ d[k] >= 0
              /\ (OpenName(els[k]) = "" /\ CloseName(els[k]) = "" /\ els[k] # L("other", 1))
                 => d[k] >= 1
              /\ CloseName(els[k]) # ""
                 => /\ OpenerOf(els, d, k) # 0
                    /\ OpenName(els[OpenerOf(els, d, k)]) = CloseName(els[k])

\* root.tag of a well-formed document
RootName(els) ==
    LET d == Depths(els)
    IN  OpenName(els[CHOOSE k \in 1..Len(els) : OpenName(els[k]) # "" /\ d[k] = 1])

\* the children of the root with the name, in document order
RootChildren(els, name) ==
    LET d == Depths(els)
    IN  SelectSeq([k \in 1..Len(els) |-> k],
                  LAMBDA k : OpenName(els[k]) = name /\ d[k] = 2)

\* the closing element of the element opened at i
CloserOf(els, i) ==
    LET d == Depths(els)
    IN  CHOOSE j \in (i + 1)..Len(els) :
            d[j] = d[i] - 1 /\ \A x \in (i + 1)..(j - 1) : d[x] >= d[i]

\* the element opened at i has a child with the name
HasChild(els, i, name) ==
    LET d == Depths(els)
    IN  \E k \in (i + 1)..(CloserOf(els, i) - 1) :
            OpenName(els[k]) = name /\ d[k] = d[i] + 1

validate_xml_structure(els) ==
    IF ~WellFormed(els)
        THEN [is_valid |-> FALSE, message |-> "XML parse error"]
    ELSE IF RootName(els) # "score-partwise"
        THEN [is_valid |-> FALSE, message |-> "Invalid root element"]
    ELSE IF RootChildren(els, "part-list") = <<>>
        THEN [is_valid |-> FALSE, message |-> "Missing required 'part-list' element"]
    ELSE IF RootChildren(els, "part") = <<>>
        THEN [is_valid |-> FALSE, message |-> "No 'part' elements found"]
    ELSE IF ~HasChild(els, RootChildren(els, "part")[1], "measure")
        THEN [is_valid |-> FALSE, message |-> "No 'measure' elements found in first part"]
    ELSE [is_valid |-> TRUE, message |-> "XML structure is valid"]

(***************************************************************************)
(* simplify_file: the passes, in its order.                                *)
(***************************************************************************)
NoKey == 100

\* "if source_key and source_instrument: transpose_from_source_key"
SourceKeyStep ==
    /\ pc = "start"
    /\ content' = IF source_key # NoKey
                  THEN transpose_from_source_key(content, source_key, source_instrument)
                  ELSE content
    /\ prev' = content
    /\ pc' = "keyed"
    /\ trace' = IF source_key # NoKey THEN Append(trace, "source_key") ELSE trace
    /\ UNCHANGED <<args, outcome, counters, history_log>>

\* "else: print(f"Unknown rule set: {rules}"); return False"
UnknownRulesStep ==
    /\ pc = "keyed"
    /\ options.rules # "downbeat"
    /\ returned' = "False"
    /\ pc' = "done"
    /\ UNCHANGED <<args, counters, history_log, content, prev, trace, output_file, runs>>

\* "elif rules == 'downbeat': apply_downbeat_rules"
RhythmStep ==
    /\ pc = "keyed"
    /\ options.rules = "downbeat"
    /\ LET r == apply_downbeat_rules(content)
       IN  /\ content' = r.content
           /\ measures_processed' = measures_processed + r.measures
           /\ eighth_notes_converted' = eighth_notes_converted + r.converted
           /\ scan_log' = r.steps
    /\ prev' = content
    /\ pc' = "rhythm"
    /\ trace' = Append(trace, "rhythm")
    /\ UNCHANGED <<args, outcome, history_log>>

\* "transpose_high_notes_for_beginners(simplified_content, source_instrument)" and
\* "correct_stem_directions(simplified_content, source_instrument)"
RangeStep ==
    /\ pc = "rhythm"
    /\ content' = correct_stem_directions(
                      transpose_high_notes_for_beginners(content, source_instrument),
                      source_instrument)
    /\ prev' = content
    /\ pc' = "range"
    /\ trace' = Append(trace, "range")
    /\ UNCHANGED <<args, outcome, counters, history_log>>

\* the saxophone annotator run on the score as it was before the range pass,
\* the range pass applied after it
SaxFingeringBeforeRange ==
    /\ pc = "range"
    /\ content' = IF options.add_fingerings /\ source_instrument = "eb_alto_sax"
                  THEN correct_stem_directions(
                           transpose_high_notes_for_beginners(
                               add_saxophone_fingerings(prev, options.fingering_style),
                               source_instrument),
                           source_instrument)
                  ELSE content
    /\ prev' = content
    /\ pc' = "sax_fingerings"
    /\ trace' = IF options.add_fingerings /\ source_instrument = "eb_alto_sax"
                THEN Append(trace, "sax_fingerings") ELSE trace
    /\ UNCHANGED <<args, outcome, counters, history_log>>

\* "if add_fingerings and source_instrument == 'eb_alto_sax' and not
\* skip_rhythm_simplification: add_saxophone_fingerings"
SaxFingeringStep ==
    /\ pc = "range"
    /\ content' = IF options.add_fingerings /\ source_instrument = "eb_alto_sax"
                  THEN add_saxophone_fingerings(content, options.fingering_style)
                  ELSE content
    /\ prev' = content
    /\ pc' = "sax_fingerings"
    /\ trace' = IF options.add_fingerings /\ source_instrument = "eb_alto_sax"
                THEN Append(trace, "sax_fingerings") ELSE trace
    /\ UNCHANGED <<args, outcome, counters, history_log>>

\* "if fix_rehearsal: fix_rehearsal_marks" with the default mode; center_title
\* is off by default
RehearsalStep ==
    /\ pc = "sax_fingerings"
    /\ content' = fix_rehearsal_marks(content, "measure_numbers")
    /\ prev' = content
    /\ pc' = "titled"
    /\ trace' = Append(trace, "rehearsal")
    /\ UNCHANGED <<args, outcome, counters, history_log>>

\* "if source_instrument: correct_instrument_metadata(simplified_content,
\* source_instrument, update_parts)" with update_parts = not sync_part_names
MetadataStep ==
    /\ pc = "titled"
    /\ content' = correct_instrument_metadata(content, source_instrument,
                                              options.sync_part_names = "")
    /\ prev' = content
    /\ pc' = "metadata"
    /\ trace' = Append(trace, "metadata")
    /\ UNCHANGED <<args, outcome, counters, history_log>>

\* "if sync_part_names: sync_part_names(simplified_content, sync_part_names)".
\* A source instrument is always given, so the auto-sync branch is not taken.
PartNamesStep ==
    /\ pc = "metadata"
    /\ content' = IF options.sync_part_names # ""
                  THEN sync_part_names(content, options.sync_part_names)
                  ELSE content
    /\ prev' = content
    /\ pc' = "part_names"
    /\ trace' = IF options.sync_part_names # "" THEN Append(trace, "part_names") ELSE trace
    /\ UNCHANGED <<args, outcome, counters, history_log>>

\* add_title_from_filename, then clean_credit_text and remove_page_system_breaks,
\* which are on by default; remove_multimeasure_rests is off by default
CreditsStep ==
    /\ pc = "part_names"
    /\ content' = remove_page_system_breaks(clean_credit_text(add_title_from_filename(content)))
    /\ prev' = content
    /\ pc' = "cleaned"
    /\ trace' = Append(trace, "credits")
    /\ UNCHANGED <<args, outcome, counters, history_log>>

\* "if add_courtesy_accidentals: add_courtesy_accidentals(simplified_content,
\* source_instrument)"
CourtesyStep ==
    /\ pc = "cleaned"
    /\ LET r == add_courtesy_accidentals(content, source_instrument)
       IN  IF options.add_courtesy_accidentals
           THEN content' = r.content /\ history_log' = r.log
           ELSE UNCHANGED <<content, history_log>>
    /\ prev' = content
    /\ pc' = "courtesy"
    /\ trace' = IF options.add_courtesy_accidentals THEN Append(trace, "courtesy") ELSE trace
    /\ UNCHANGED <<args, outcome, counters>>

\* "if add_courtesy_fingerings and source_instrument in ['bb_trumpet', 'f_horn',
\* 'c_euphonium']: add_brass_fingerings_to_accidentals"
BrassFingeringStep ==
    /\ pc = "courtesy"
    /\ content' = IF /\ options.add_courtesy_fingerings
                     /\ source_instrument \in {"bb_trumpet", "f_horn", "c_euphonium"}
                  THEN add_brass_fingerings_to_accidentals(content, source_instrument)
                  ELSE content
    /\ prev' = content
    /\ pc' = "brass_fingerings"
    /\ trace' = IF /\ options.add_courtesy_fingerings
                   /\ source_instrument \in {"bb_trumpet", "f_horn", "c_euphonium"}
                THEN Append(trace, "brass_fingerings") ELSE trace
    /\ UNCHANGED <<args, outcome, counters, history_log>>

\* "if not sync_part_names and not auto_sync_part_names: _update_metadata" and
\* "else: _update_software_credit"
UpdateMetadataStep ==
    /\ pc = "brass_fingerings"
    /\ content' = IF options.sync_part_names = "" /\ ~options.auto_sync_part_names
                  THEN _update_metadata(content)
                  ELSE _update_software_credit(content)
    /\ prev' = content
    /\ pc' = "updated"
    /\ trace' = Append(trace, "update_metadata")
    /\ UNCHANGED <<args, outcome, counters, history_log>>

\* The rhythm pass is called again on the same simplifier object and the same
\* score: __init__ does not run again, the counters keep their values.
AnotherRun ==
    /\ pc = "rhythm"
    /\ runs < MaxRuns
    /\ runs' = runs + 1
    /\ content' = input
    /\ prev' = input
    /\ pc' = "keyed"
    /\ UNCHANGED <<args, counters, history_log, trace, output_file, returned>>

\* "with open(output_path, 'w', encoding='utf-8') as f: f.write(simplified_content)"
WriteStep ==
    /\ pc = "updated"
    /\ output_file' = [exists |-> TRUE, text |-> content]
    /\ pc' = "written"
    /\ UNCHANGED <<args, counters, history_log, content, prev, trace, returned, runs>>

\* "is_valid, validation_message = self.validate_xml_structure(output_path)",
\* then "return False" or "return True"
ValidateStep ==
    /\ pc = "written"
    /\ returned' = IF validate_xml_structure(output_file.text).is_valid THEN "True"
                   ELSE "False"
    /\ pc' = "done"
    /\ UNCHANGED <<args, counters, history_log, content, prev, trace, output_file, runs>>

\* simplify_file's defaults, with the options of the annotating passes off
DefaultOptions ==
    [rules |-> "downbeat", add_fingerings |-> FALSE, fingering_style |-> "numbers",
     add_courtesy_accidentals |-> FALSE, add_courtesy_fingerings |-> FALSE,
     sync_part_names |-> "", auto_sync_part_names |-> FALSE]

InitOptions(doc, at, instrument, key, opts) ==
    /\ content = doc
    /\ prev = doc
    /\ input = doc
    /\ pc = at
    /\ source_instrument = instrument
    /\ source_key = key
    /\ measures_processed = 0
    /\ eighth_notes_converted = 0
    /\ scan_log = <<>>
    /\ options = opts
    /\ trace = <<>>
    /\ history_log = <<>>
    /\ output_file = [exists |-> FALSE, text |-> <<>>]
    /\ returned = "none"
    /\ runs = 1

InitWith(doc, at, instrument, key) == InitOptions(doc, at, instrument, key, DefaultOptions)

C5 == Pitch(StepC, 0, 5)
D5 == Pitch(StepD, 0, 5)

\* Whole runs: one measure of four eighth notes on C5 and D5.
EighthNotes == {Ev("E", FALSE, C5), Ev("E", FALSE, D5)}

\* every annotating pass asked for
AllOptions(style) ==
    [DefaultOptions EXCEPT !.add_fingerings = TRUE, !.fingering_style = style,
                           !.add_courtesy_accidentals = TRUE,
                           !.add_courtesy_fingerings = TRUE]

\* Whole runs with every option on: scores of up to MaxRunNotes quarter notes
\* with a part name in the identification and a score instrument.
MaxRunNotes == 2

RunMeta ==
    [misc |-> "Old Part", part |-> "Old Part", instrument |-> TRUE, name |-> "Old Name",
     sound |-> "old.sound", program |-> 1]

RenderScore(meta, ms) ==
    <<L("other", 1), L("other", 2)>> \o RenderIdentification(meta)
    \o RenderPartList(meta) \o <<L("other", 8)>>
    \o RenderAnnotatedMeasures(ms, 1) \o Footer

\* Scores for the structural validation.  root: the root element's name;
\* part_list: the score has a part list; parts: the number of measures of each
\* part, every measure holding one quarter note C5; closed: the root element is
\* closed (a file cut off before its last line is not).
RenderStructureMeasures(count) ==
    RenderAnnotatedMeasures([m \in 1..count |-> <<Annotated(C5, "", FALSE, "")>>], 1)

RenderStructureParts(parts) ==
    (IF Len(parts) >= 1
     THEN <<L("other", 8)>> \o RenderStructureMeasures(parts[1]) \o <<L("other", 9)>>
     ELSE <<>>)
    \o (IF Len(parts) >= 2
        THEN <<L("part", 0)>> \o RenderStructureMeasures(parts[2]) \o <<L("other", 9)>>
        ELSE <<>>)

RenderStructure(root, part_list, parts, closed) ==
    <<L("other", 1)>>
    \o (IF root = "score-partwise" THEN <<L("other", 2)>> ELSE <<L(root, 0)>>)
    \o (IF part_list
        THEN <<L("other", 3), L("other", 4), L("part-name", "Music"), L("other", 6),
               L("other", 7)>>
        ELSE <<>>)
    \o RenderStructureParts(parts)
    \o (IF ~closed THEN <<>>
        ELSE IF root = "score-partwise" THEN <<L("other", 10)>>
        ELSE <<L("end" \o root, 0)>>)

RunNotes ==
    {Annotated(Pitch(StepF, 1, 5), "", FALSE, "slur"),
     Annotated(Pitch(StepB, -1, 3), "", FALSE, ""),
     Annotated(Pitch(StepF, 1, 4), "sharp", FALSE, ""),
     Annotated(D5, "", FALSE, "slur")}

Init ==
    \/ \E a, b, c, d \in EighthNotes, beamed \in BOOLEAN,
          instrument \in {"eb_alto_sax", "c_euphonium", "bb_trumpet"}, key \in {NoKey, -2},
          opts \in {DefaultOptions, AllOptions("numbers")} :
           InitOptions(RenderDoc(<<(<<a, b, c, d>>)>>, 2, 0, beamed), "start", instrument,
                       key, opts)
    \/ \E score \in Scores(RunNotes, MaxRunNotes),
          instrument \in {"eb_alto_sax", "c_euphonium", "bb_trumpet"}, key \in {NoKey, -2},
          style \in {"numbers", "holes", "both"}, sync \in {"", "My Part"} :
           /\ instrument # "eb_alto_sax" => style = "numbers"
           /\ InitOptions(RenderScore(RunMeta, score), "start", instrument, key,
                          [AllOptions(style) EXCEPT !.sync_part_names = sync])

Next ==
    \/ SourceKeyStep
    \/ RhythmStep
    \/ RangeStep
    \/ SaxFingeringStep
    \/ RehearsalStep
    \/ MetadataStep
    \/ PartNamesStep
    \/ CreditsStep
    \/ CourtesyStep
    \/ BrassFingeringStep
    \/ UpdateMetadataStep
    \/ WriteStep
    \/ ValidateStep

Spec == Init /\ [][Next]_vars

\* Whole runs on scores of every structure, with a known and an unknown rule set
MaxParts == 2
MaxMeasures == 2

InitOutput ==
    \E root \in {"score-partwise", "score-timewise"}, part_list, closed \in BOOLEAN,
       parts \in SeqsUpTo(0..MaxMeasures, MaxParts) \cup {<<>>},
       rules \in {"downbeat", "swing"},
       opts \in {DefaultOptions, AllOptions("numbers")} :
        InitOptions(RenderStructure(root, part_list, parts, closed), "start", "bb_trumpet",
                    NoKey, [opts EXCEPT !.rules = rules])

NextOutput == Next \/ UnknownRulesStep

SpecOutput == InitOutput /\ [][NextOutput]_vars

\* The rhythm simplifier on every score of up to MaxEvents events in one or two
\* measures, with a quarter note of 2 or of 4 divisions.
RhythmAlphabet ==
    {Ev("E", FALSE, C5), Ev("E", FALSE, D5), Ev("E", TRUE, NoPitch),
     Ev("DQ", FALSE, C5), Ev("Q", FALSE, C5)}

InitRhythm ==
    \E score \in Scores(RhythmAlphabet, MaxEvents), div \in {2, 4}, beamed \in BOOLEAN :
        InitWith(RenderDoc(score, div, 0, beamed), "keyed", "eb_alto_sax", NoKey)

SpecRhythm == InitRhythm /\ [][RhythmStep]_vars

\* The rhythm pass on scores whose eighth notes carry a beam, written with the
\* number attribute or without it
Unnumbered(els) ==
    [k \in 1..Len(els) |-> IF els[k].t = "beam" THEN [els[k] EXCEPT !.v = 0] ELSE els[k]]

InitBeams ==
    \E score \in Scores({Ev("E", FALSE, C5), Ev("E", TRUE, NoPitch), Ev("Q", FALSE, C5)},
                        MaxEvents),
       numbered \in BOOLEAN :
        InitWith(IF numbered THEN RenderDoc(score, 2, 0, TRUE)
                 ELSE Unnumbered(RenderDoc(score, 2, 0, TRUE)),
                 "keyed", "eb_alto_sax", NoKey)

SpecBeams == InitBeams /\ [][RhythmStep]_vars

\* The rhythm pass run up to MaxRuns times on one simplifier object, on scores
\* of eighth and quarter notes
InitStatistics ==
    \E score \in Scores({Ev("E", FALSE, C5), Ev("E", FALSE, D5), Ev("Q", FALSE, C5)},
                        MaxEvents) :
        InitWith(RenderDoc(score, 2, 0, FALSE), "keyed", "eb_alto_sax", NoKey)

SpecStatistics == InitStatistics /\ [][RhythmStep \/ AnotherRun]_vars

\* The range transposer on every score of up to MaxEvents quarter notes.
RangePitches ==
    {Pitch(StepD, 0, 2), Pitch(StepF, 0, 2), Pitch(StepG, 0, 2), Pitch(StepC, 0, 4),
     Pitch(StepE, 0, 4), C5, Pitch(StepC, 1, 5), D5}

InitRange ==
    \E score \in Scores({Ev("Q", FALSE, p) : p \in RangePitches}, MaxEvents),
       instrument \in {"eb_alto_sax", "c_euphonium", "bb_trumpet"} :
        InitWith(RenderDoc(score, 2, 0, FALSE), "rhythm", instrument, NoKey)

SpecRange == InitRange /\ [][RangeStep]_vars

\* The key corrector on every source key, instrument, key in the file and note.
InitKey ==
    \E step \in Steps, alter \in -1..1, old \in -7..7, key \in -7..7,
       instrument \in RegisteredInstruments :
        InitWith(RenderDoc(<<(<<Ev("Q", FALSE, Pitch(step, alter, 4))>>)>>, 2, old, FALSE),
                 "start", instrument, key)

SpecKey == InitKey /\ [][SourceKeyStep]_vars

\* The instrument and key corrector on one-part scores with every combination
\* of identification, score instrument, clef and transposition elements; "tuba"
\* is an instrument INSTRUMENT_CORRECTIONS does not list.
Metas ==
    {[misc |-> misc, part |-> "Old Part", instrument |-> instrument, name |-> name,
      sound |-> "old.sound", program |-> program] :
        misc \in {"", "Old Part"}, instrument \in BOOLEAN,
        name \in {"Old Name", "Trumpet"}, program \in {1, 57}}

Transposes == {<<>>, <<(<<-1, -2>>)>>, <<(<<-5, -9>>)>>, <<(<<-1, -2>>), (<<-5, -9>>)>>}

InitCorrector ==
    \E meta \in Metas, clef \in BOOLEAN, transposes \in Transposes,
       instrument \in RegisteredInstruments \cup {"tuba"}, key \in {NoKey, -2},
       at \in {"start", "titled"}, sync \in {"", "My Part"} :
        /\ at = "titled" => key = NoKey
        /\ InitOptions(RenderPart(meta, 1, clef, transposes, Pitch(StepF, 1, 4)), at,
                       instrument, key, [DefaultOptions EXCEPT !.sync_part_names = sync])

SpecCorrector == InitCorrector /\ [][SourceKeyStep \/ MetadataStep \/ PartNamesStep]_vars

\* every split of a sequence of events into one, two or three measures
MeasureSplits(S, n) ==
    Scores(S, n)
    \cup UNION {{<<SubSeq(s, 1, j), SubSeq(s, j + 1, k), SubSeq(s, k + 1, Len(s))>> :
                    j \in 1..(Len(s) - 2), k \in 2..(Len(s) - 1)}
                : s \in SeqsUpTo(S, n)}

\* The courtesy pass on every score of up to MaxEvents notes in up to three
\* measures.  The notes are on one letter, in the alteration the instrument's
\* home key has for it and natural, without accidental, with a written one and
\* with a cautionary one, and a C sharp, which no home key has.
CourtesyNotesOf(step, alter) ==
    {Annotated(Pitch(step, alter, 4), "", FALSE, ""),
     Annotated(Pitch(step, alter, 4), IF alter = 1 THEN "sharp" ELSE "flat", FALSE, ""),
     Annotated(Pitch(step, alter, 4), IF alter = 1 THEN "sharp" ELSE "flat", TRUE, ""),
     Annotated(Pitch(step, 0, 4), "", FALSE, ""),
     Annotated(Pitch(step, 0, 4), "natural", FALSE, ""),
     Annotated(Pitch(StepC, 1, 4), "", FALSE, "")}

InitCourtesy ==
    \E instrument \in {"c_euphonium", "eb_alto_sax", "bb_trumpet"} :
        \E score \in MeasureSplits(IF instrument = "eb_alto_sax"
                                    THEN CourtesyNotesOf(StepF, 1)
                                    ELSE CourtesyNotesOf(StepB, -1), MaxEvents) :
            /\ \A i \in 1..Len(score) : score[i] # <<>>
            /\ InitOptions(RenderAnnotatedDoc(score), "cleaned", instrument, NoKey,
                           [DefaultOptions EXCEPT !.add_courtesy_accidentals = TRUE])

SpecCourtesy == InitCourtesy /\ [][CourtesyStep]_vars

\* The courtesy pass on scores that also hold rests and doubly altered notes:
\* the home key's letter in its alteration with and without a written
\* accidental, natural, doubly altered, and a rest.
InsertionNotesOf(step, alter) ==
    {Annotated(Pitch(step, alter, 4), "", FALSE, ""),
     Annotated(Pitch(step, alter, 4), IF alter = 1 THEN "sharp" ELSE "flat", FALSE, ""),
     Annotated(Pitch(step, 0, 4), "", FALSE, ""),
     Annotated(Pitch(step, 2 * alter, 4), "", FALSE, ""),
     Annotated(NoPitch, "", FALSE, "")}

InitInsertion ==
    \E instrument \in {"c_euphonium", "eb_alto_sax"} :
        \E score \in MeasureSplits(IF instrument = "eb_alto_sax"
                                    THEN InsertionNotesOf(StepF, 1)
                                    ELSE InsertionNotesOf(StepB, -1), MaxEvents) :
            /\ \A i \in 1..Len(score) : score[i] # <<>>
            /\ InitOptions(RenderAnnotatedDoc(score), "cleaned", instrument, NoKey,
                           [DefaultOptions EXCEPT !.add_courtesy_accidentals = TRUE])

SpecInsertion == InitInsertion /\ [][CourtesyStep]_vars

\* The fingering annotators on every score of up to MaxEvents notes: F#4 and F#5
\* are in every chart, F4 is a note the saxophone chart calls familiar, E#4 is in
\* no chart.
FingeringNotes ==
    {Annotated(Pitch(StepF, 1, 4), "", FALSE, ""),
     Annotated(Pitch(StepF, 1, 4), "sharp", FALSE, ""),
     Annotated(Pitch(StepF, 1, 4), "", FALSE, "slur"),
     Annotated(Pitch(StepF, 1, 5), "sharp", FALSE, "slur"),
     Annotated(Pitch(StepF, 1, 4), "sharp", TRUE, "technical"),
     Annotated(Pitch(StepF, 0, 4), "natural", FALSE, "slur"),
     Annotated(Pitch(StepE, 1, 4), "sharp", FALSE, "slur"),
     Annotated(Pitch(StepF, 0, 4), "", FALSE, "")}

InitFingering ==
    \E score \in Scores(FingeringNotes, MaxEvents),
       instrument \in {"eb_alto_sax", "bb_trumpet", "f_horn", "c_euphonium"},
       style \in {"numbers", "holes", "both"} :
        /\ instrument # "eb_alto_sax" => style = "numbers"
        /\ InitOptions(RenderAnnotatedDoc(score),
                       IF instrument = "eb_alto_sax" THEN "range" ELSE "courtesy",
                       instrument, NoKey,
                       [DefaultOptions EXCEPT !.add_fingerings = TRUE,
                                              !.add_courtesy_fingerings = TRUE,
                                              !.fingering_style = style])

SpecFingering == InitFingering /\ [][SaxFingeringStep \/ BrassFingeringStep]_vars

(***************************************************************************)
(* Properties.                                                             *)
(***************************************************************************)
\* an event without its place in the document
Core(e) ==
    [rest |-> e.rest, step |-> e.step, alter |-> e.alter, octave |-> e.octave,
     duration |-> e.duration, type |-> e.type, dot |-> e.dot, beam |-> e.beam]

Cores(evs) == [i \in 1..Len(evs) |-> Core(evs[i])]

NoteEvent(p, ty, dur) ==
    [rest |-> FALSE, step |-> p.step, alter |-> p.alter, octave |-> p.octave,
     duration |-> dur, type |-> ty, dot |-> FALSE, beam |-> FALSE]

RestEvent(ty, dur) ==
    [rest |-> TRUE, step |-> 0, alter |-> 0, octave |-> 0,
     duration |-> dur, type |-> ty, dot |-> FALSE, beam |-> FALSE]

\* C1: Duration conservation.  After the rhythm simplifier the document has the
\* measures it had before, and the event durations of each measure add up to
\* what they added up to before.
C1_DurationConservation ==
    pc = "rhythm" =>
        /\ MeasureNumbers(content) = MeasureNumbers(prev)
        /\ \A m \in 1..Len(MeasureNumbers(prev)) :
               MeasureDuration(content, m) = MeasureDuration(prev, m)

\* The events the scan has ahead of it at line i of the document it reads.
EventsAhead(i) ==
    LET lines == SplitLines(prev)
    IN  Cores(EventsOf(JoinLines(SubSeq(lines, i, Len(lines)))))

\* The iteration s of the scan takes up the next note of the document.
ReachesNote(s) ==
    LET lines == SplitLines(prev)
    IN  FindLine(lines, s.at, "note") < s.next

\* The events the iteration s appended to the result.
EventsOut(s) == Cores(EventsOf(JoinLines(s.out)))

IsDottedQuarterNote(e) == ~e.rest /\ e.type = TypeQuarter /\ e.dot /\ e.duration = 3
IsEighthNote(e) == ~e.rest /\ e.type = TypeEighth /\ ~e.dot /\ e.duration = 1
IsEighthRest(e) == e.rest /\ e.type = TypeEighth /\ ~e.dot /\ e.duration = 1

\* the scan is at a dotted quarter note (duration 3) followed by an eighth note
\* (duration 1)
AtRule1Pair(s) ==
    /\ ReachesNote(s)
    /\ LET ahead == EventsAhead(s.at)
       IN  /\ Len(ahead) >= 2
           /\ IsDottedQuarterNote(ahead[1])
           /\ IsEighthNote(ahead[2])

\* the scan is at a dotted quarter note followed by no eighth note
AtLoneDottedQuarter(s) ==
    /\ ReachesNote(s)
    /\ LET ahead == EventsAhead(s.at)
       IN  /\ Len(ahead) >= 1
           /\ IsDottedQuarterNote(ahead[1])
           /\ (Len(ahead) >= 2 => (ahead[2].rest \/ ahead[2].type # TypeEighth))

AtRule2Pair(s) ==
    /\ ReachesNote(s)
    /\ LET ahead == EventsAhead(s.at)
       IN  /\ Len(ahead) >= 2
           /\ IsEighthNote(ahead[1])
           /\ (IsEighthNote(ahead[2]) \/ IsEighthRest(ahead[2]))

AtRule3Pair(s) ==
    /\ ReachesNote(s)
    /\ LET ahead == EventsAhead(s.at)
       IN  /\ Len(ahead) >= 2
           /\ IsEighthRest(ahead[1])
           /\ IsEighthNote(ahead[2])

BelowRange(instrument, e) ==
    /\ instrument = "c_euphonium"
    /\ calculate_midi_note(e.step, e.octave, e.alter) <= calculate_midi_note(StepF, 2, 0)

AboveRange(instrument, e) ==
    /\ instrument # "c_euphonium"
    /\ calculate_midi_note(e.step, e.octave, e.alter) >= calculate_midi_note(StepC, 5, 1)

InRange(instrument, e) == ~BelowRange(instrument, e) /\ ~AboveRange(instrument, e)

\* C5: Range hard constraint.  The range transposer writes every note below the
\* instrument's low limit one octave higher and every note above its high limit
\* one octave lower, and it changes no step and no alter.
C5_RangeHardConstraint ==
    pc = "range" =>
        LET before == EventsOf(prev)
            after == EventsOf(content)
        IN  /\ Len(after) = Len(before)
            /\ \A i \in 1..Len(before) :
                   /\ after[i].step = before[i].step
                   /\ after[i].alter = before[i].alter
                   /\ BelowRange(source_instrument, before[i]) =>
                          after[i].octave = before[i].octave + 1
                   /\ AboveRange(source_instrument, before[i]) =>
                          after[i].octave = before[i].octave - 1

\* C6: Range invariant.  A note that is within the instrument's limits before the
\* range transposer is within them after it.
C6_RangeInvariant ==
    pc = "range" =>
        LET before == EventsOf(prev)
            after == EventsOf(content)
        IN  /\ Len(after) = Len(before)
            /\ \A i \in 1..Len(before) :
                   InRange(source_instrument, before[i]) =>
                       InRange(source_instrument, after[i])

\* the input is one measure of four eighth notes C5, C5, D5, D5 of duration 1
IsScenarioInput ==
    LET evs == EventsOf(input)
    IN  /\ Len(MeasureNumbers(input)) = 1
        /\ Len(evs) = 4
        /\ \A i \in 1..4 : IsEighthNote(evs[i])
        /\ [i \in 1..4 |-> PitchOfEvent(evs[i])] = <<C5, C5, D5, D5>>

\* C7: End-to-end scenario.  One measure of four eighth notes C5, C5, D5, D5 (each
\* of duration 1) for eb_alto_sax is, after the rhythm simplifier and then the
\* range transposer, one measure of exactly two events, a quarter C5 of duration 2
\* and a quarter D4 of duration 2, with no beam left in the document.
C7_EndToEnd ==
    (pc = "range" /\ IsScenarioInput /\ source_instrument = "eb_alto_sax") =>
        /\ Cores(EventsOf(content)) =
               <<NoteEvent(C5, TypeQuarter, 2),
                 NoteEvent(Pitch(StepD, 0, 4), TypeQuarter, 2)>>
        /\ MeasureNumbers(content) = MeasureNumbers(input)
        /\ MeasureDuration(content, 1) = 4
        /\ \A k \in 1..Len(content) : content[k].t # "beam"

C7_Witness ==
    /\ pc = "range"
    /\ IsScenarioInput
    /\ source_instrument = "eb_alto_sax"
    /\ \E k \in 1..Len(input) : input[k].t = "beam"
    /\ Len(EventsOf(content)) = 2

\* The fixed table of the written-direction intervals: major 2nd +2, major 6th
\* +3, perfect 4th -1, unison 0.
TableDelta(instrument) ==
    CASE transpose_chromatic(instrument) = -2 -> 2
      [] transpose_chromatic(instrument) = -9 -> 3
      [] transpose_chromatic(instrument) = -7 -> -1
      [] transpose_chromatic(instrument) = 0 -> 0

\* C8: Key recomputation.  For every source key and registered instrument whose
\* sum stays within -7..7, the key signature written is the source key plus the
\* table's delta for the instrument.
C8_KeyRecomputation ==
    (pc = "keyed" /\ source_key + TableDelta(source_instrument) \in -7..7) =>
        original_key_fifths(content) = source_key + TableDelta(source_instrument)

\* C9: Key-signature clamping.  The key signature written is always within -7..7,
\* and when the source key plus the instrument's delta is outside -7..7 it is that
\* sum brought back by 12.
C9_KeyClamping ==
    pc = "keyed" =>
        LET sum == source_key + fifths_change(source_instrument)
            written == original_key_fifths(content)
        IN  /\ written \in -7..7
            /\ sum > 7 => written = sum - 12
            /\ sum < -7 => written = sum + 12

\* the letters a key signature alters
AlteredBy(fifths) ==
    IF fifths > 0 THEN {sharp_order[i] : i \in 1..fifths}
    ELSE IF fifths < 0 THEN {flat_order[i] : i \in 1..(-fifths)}
    ELSE {}

SharpedBy(fifths) == IF fifths > 0 THEN AlteredBy(fifths) ELSE {}
FlattedBy(fifths) == IF fifths < 0 THEN AlteredBy(fifths) ELSE {}

\* C10: Accidental correction on key change.  With old the key signature of the
\* document and new the one written: a note whose letter old alters and new does
\* not becomes natural; a natural note whose letter is sharp (flat) in new and not
\* in old becomes sharp (flat); a note whose letter neither alters keeps its
\* alter; with old = new the pitch is unchanged; step and octave never change.
C10_AccidentalCorrection ==
    pc = "keyed" =>
        LET old == original_key_fifths(prev)
            new == original_key_fifths(content)
            before == EventsOf(prev)
            after == EventsOf(content)
        IN  /\ Len(after) = Len(before)
            /\ \A i \in 1..Len(before) :
                   LET b == before[i]
                       a == after[i]
                   IN  /\ a.step = b.step /\ a.octave = b.octave
                       /\ b.step \in AlteredBy(old) \ AlteredBy(new) => a.alter = 0
                       /\ (b.alter = 0 /\ b.step \in SharpedBy(new) \ SharpedBy(old)) =>
                              a.alter = 1
                       /\ (b.alter = 0 /\ b.step \in FlattedBy(new) \ FlattedBy(old)) =>
                              a.alter = -1
                       /\ b.step \notin AlteredBy(old) \cup AlteredBy(new) =>
                              a.alter = b.alter
                       /\ old = new => a.alter = b.alter

C10_Witness ==
    /\ pc = "keyed"
    /\ original_key_fifths(prev) = -3
    /\ original_key_fifths(content) = 2
    /\ Len(EventsOf(prev)) = 1
    /\ EventsOf(prev)[1].step = StepE
    /\ EventsOf(prev)[1].alter = -1
    /\ EventsOf(content)[1].alter = 0

\* The text, or the number, of every element of a tag in the score
TextsOf(els, tag) == {els[j].v : j \in {i \in 1..Len(els) : els[i].t = tag}}

\* C11: after the metadata correction with a registered instrument, the
\* instrument name, the sound id and the MIDI program of the score are the
\* profile's name, sound id and program, for both values of update_part_names
\* (update_part_names is true exactly when no explicit part name is given).
C11_MetadataRewrite ==
    (pc = "metadata" /\ source_instrument \in RegisteredInstruments) =>
        /\ TextsOf(content, "instrument-name") \subseteq {correction_name(source_instrument)}
        /\ TextsOf(content, "instrument-sound") \subseteq {instrument_sound(source_instrument)}
        /\ TextsOf(content, "midi-program") \subseteq {midi_program(source_instrument)}

\* the <transpose> elements of the score, with what they hold
TransposeElements(els) ==
    SelectSeq(els, LAMBDA e : e.t \in {"transpose", "diatonic", "chromatic", "endtranspose"})

\* the chromatic transposition the score states, none meaning 0
ChromaticOf(els) ==
    IF existing_transpose(els).found THEN existing_transpose(els).chromatic ELSE 0

\* C12: the metadata correction with a registered instrument leaves a transpose
\* element alone whose chromatic value is the profile's, leaves no transpose
\* element when the profile's chromatic value is 0, and in every case the score
\* then states the profile's chromatic transposition (no element meaning 0).
C12_Transposition ==
    (pc = "metadata" /\ source_instrument \in RegisteredInstruments) =>
        /\ (existing_transpose(prev).found
             /\ existing_transpose(prev).chromatic = transpose_chromatic(source_instrument))
            => TransposeElements(content) = TransposeElements(prev)
        /\ transpose_chromatic(source_instrument) = 0 => TransposeElements(content) = <<>>
        /\ ChromaticOf(content) = transpose_chromatic(source_instrument)

\* C13: with an instrument that INSTRUMENT_CORRECTIONS does not list, the
\* source-key correction and the metadata correction return the score as they
\* got it: metadata, transpose elements, key signature and pitches are those of
\* before, and no profile's values are written.
C13_UnknownInstrument ==
    (source_instrument \notin RegisteredInstruments /\ pc \in {"keyed", "metadata"}) =>
        content = prev

\* the metadata correction has run for the unlisted instrument on a score that
\* has a score instrument to rename and two transpose elements to rewrite
C13_Witness ==
    /\ pc = "metadata"
    /\ source_instrument = "tuba"
    /\ TextsOf(prev, "instrument-name") = {"Old Name"}
    /\ Len(TransposeElements(prev)) = 8
    /\ options.sync_part_names = ""

\* the <note>...</note> blocks of the score, in order
NoteBlocks(els) ==
    LET starts == TagStarts(els, 1, "note")
    IN  [i \in 1..Len(starts) |-> SubSeq(els, starts[i], NoteEnd(els, starts[i]))]

\* the note carries a fingering annotation: finger numbers or hole diagrams
IsAnnotated(block) == Holds(block, "fingering") \/ Holds(block, "hole")

\* the fingering annotator of the instrument has just run
FingeringDone ==
    \/ pc = "sax_fingerings" /\ options.add_fingerings /\ source_instrument = "eb_alto_sax"
    \/ /\ pc = "brass_fingerings" /\ options.add_courtesy_fingerings
       /\ source_instrument \in {"bb_trumpet", "f_horn", "c_euphonium"}

\* the fingering chart of the instrument, as its keys
ChartKeys(instrument) ==
    {e.key : e \in CASE instrument = "eb_alto_sax" -> ALTO_SAX_FINGERINGS
                     [] instrument = "bb_trumpet" -> BB_TRUMPET_FINGERINGS
                     [] instrument = "f_horn" -> F_HORN_FINGERINGS
                     [] instrument = "c_euphonium" -> C_EUPHONIUM_FINGERINGS}

\* C14: for the saxophone and the brass annotator and every fingering style, a
\* note without an <accidental> element gets no fingering annotation, a note
\* with one whose (step, alter, octave) is in the instrument's chart gets one,
\* and a note with one whose tuple is not in the chart stays as it was.
C14_FingeringOnAccidentals ==
    FingeringDone =>
        /\ Len(NoteBlocks(content)) = Len(NoteBlocks(prev))
        /\ \A i \in 1..Len(NoteBlocks(prev)) :
              LET before == NoteBlocks(prev)[i]
                  after == NoteBlocks(content)[i]
              IN  /\ ~Holds(before, "accidental") => ~IsAnnotated(after)
                  /\ (Holds(before, "accidental")
                      /\ PitchKey(before).key \in ChartKeys(source_instrument))
                     => IsAnnotated(after)
                  /\ (Holds(before, "accidental")
                      /\ PitchKey(before).key \notin ChartKeys(source_instrument))
                     => after = before

\* C15: for every score, instrument and fingering style, the annotator applied
\* to the score it has annotated returns that score: a second run adds nothing.
C15_FingeringIdempotence ==
    /\ (pc = "sax_fingerings" /\ options.add_fingerings /\ source_instrument = "eb_alto_sax")
       => add_saxophone_fingerings(content, options.fingering_style) = content
    /\ (pc = "brass_fingerings" /\ options.add_courtesy_fingerings)
       => add_brass_fingerings_to_accidentals(content, source_instrument) = content

\* the courtesy pass has just run
CourtesyDone == pc = "courtesy" /\ options.add_courtesy_accidentals

\* the pass wrote a courtesy accidental into the i-th note: the note had no
\* accidental and has a cautionary one
CourtesyInserted(i) ==
    /\ ~Holds(NoteBlocks(prev)[i], "accidental")
    /\ LET block == NoteBlocks(content)[i]
       IN  \E j \in 1..Len(block) : block[j].t = "accidental" /\ block[j].v.cautionary

\* the notes of the score before the pass that wrote the same letter with the
\* same alteration in the same measure as its i-th note
SameTriple(i) ==
    LET notes == CourtesyNotes(prev)
    IN  {j \in 1..Len(notes) :
            /\ notes[j].note_name = notes[i].note_name
            /\ notes[j].measure_num = notes[i].measure_num
            /\ notes[j].alter_value = notes[i].alter_value}

\* C16: after add_courtesy_accidentals, of the notes of one letter with one
\* alteration in one measure at most one has got a courtesy accidental.
C16_CourtesyUniqueness ==
    CourtesyDone =>
        /\ Len(NoteBlocks(content)) = Len(NoteBlocks(prev))
        /\ \A i \in 1..Len(CourtesyNotes(prev)) :
              Cardinality({j \in SameTriple(i) : CourtesyInserted(j)}) <= 1

\* a measure holds two notes of one letter and alteration, neither with an
\* accidental, and the pass has written a courtesy accidental into one of them
C16_Witness ==
    /\ CourtesyDone
    /\ \E i \in 1..Len(CourtesyNotes(prev)) :
          /\ Cardinality({j \in SameTriple(i) : ~CourtesyNotes(prev)[j].accidental}) >= 2
          /\ \E j \in SameTriple(i) : CourtesyInserted(j)

\* the measure of the first note of the letter with the alteration, as a set:
\* empty when the score has no such note
FirstMeasureOf(els, step, alter) ==
    LET notes == CourtesyNotes(els)
        at == {i \in 1..Len(notes) : notes[i].note_name = step /\ notes[i].alter_value = alter}
    IN  IF at = {} THEN {}
        ELSE {notes[CHOOSE i \in at : \A j \in at : i <= j].measure_num}

WrittenMeasures(els, step) ==
    {CourtesyNotes(els)[i].measure_num : i \in
        {j \in 1..Len(CourtesyNotes(els)) :
            /\ CourtesyNotes(els)[j].note_name = step
            /\ \E e \in 1..Len(NoteBlocks(els)[j]) :
                  /\ NoteBlocks(els)[j][e].t = "accidental"
                  /\ ~NoteBlocks(els)[j][e].v.cautionary}}

\* the measures in which the letter occurs
MeasuresOf(els, step) ==
    {CourtesyNotes(els)[i].measure_num : i \in
        {j \in 1..Len(CourtesyNotes(els)) : CourtesyNotes(els)[j].note_name = step}}

\* the first measure with the letter after the last measure in which it has a
\* written accidental, as a set: empty when there is none
FirstAfterWritten(els, step) ==
    LET written == WrittenMeasures(els, step)
        later == {m \in MeasuresOf(els, step) : written # {} /\ m > SetMax(written)}
    IN  IF later = {} THEN {} ELSE {CHOOSE m \in later : \A x \in later : m <= x}

\* C18: after the second pass, the first measure with the letter after the last
\* measure in which it has a written, not cautionary, accidental is flagged,
\* whatever the home key, and the second pass has flagged no other measure.
C18_CourtesySecondPass ==
    CourtesyDone =>
        \A step \in Steps :
            /\ FirstAfterWritten(prev, step) \subseteq history_log[2][step].needs_courtesy
            /\ (history_log[2][step].needs_courtesy \ history_log[1][step].needs_courtesy)
                   \subseteq FirstAfterWritten(prev, step)

\* every run of pass a comes before every run of pass b
Before(a, b) ==
    \A i, j \in 1..Len(trace) : (trace[i] = a /\ trace[j] = b) => i < j

\* every optional pass is asked for: a source key, fingerings, courtesy
\* accidentals and courtesy fingerings
AllOptionsOn ==
    /\ source_key # NoKey
    /\ options.add_fingerings
    /\ options.add_courtesy_accidentals
    /\ options.add_courtesy_fingerings

\* C19: in every run with all options on the passes run in the order rhythm
\* simplifier, range transposer, instrument and key corrector (the metadata
\* correction and the source-key correction), courtesy accidentals, fingering
\* annotator (saxophone or brass), each after the one before it has finished.
C19_PassOrder ==
    AllOptionsOn =>
        /\ Before("rhythm", "range")
        /\ Before("range", "source_key")
        /\ Before("range", "metadata")
        /\ Before("source_key", "courtesy")
        /\ Before("metadata", "courtesy")
        /\ Before("courtesy", "sax_fingerings")
        /\ Before("courtesy", "brass_fingerings")

\* step, alter and octave of the notes of the score, in order
PitchesOf(els) == [i \in 1..Len(NoteBlocks(els)) |-> PitchKey(NoteBlocks(els)[i]).key]

\* the fingering annotation a note carries: its fingers and hole diagrams
AnnotationOf(block) ==
    SelectSeq(block, LAMBDA e : e.t \in {"fingering", "hole", "hole-closed", "hole-shape",
                                         "endhole"})

\* the annotation the instrument's chart gives for the pitch the note has
ChartAnnotation(block) ==
    IF source_instrument = "eb_alto_sax"
    THEN fingering_xml(ChartEntry(ALTO_SAX_FINGERINGS, PitchKey(block).key),
                       options.fingering_style)
    ELSE <<L("fingering",
             [text |-> ChartEntry(CASE source_instrument = "bb_trumpet" -> BB_TRUMPET_FINGERINGS
                                    [] source_instrument = "f_horn" -> F_HORN_FINGERINGS
                                    [] OTHER -> C_EUPHONIUM_FINGERINGS,
                                  PitchKey(block).key).fingering,
              placement |-> "above"])>>

FingeringPasses == {"sax_fingerings", "brass_fingerings"}

\* every run of pass b comes after a run of pass a
Preceded(a, b) ==
    \A j \in 1..Len(trace) : trace[j] = b => \E i \in 1..(j - 1) : trace[i] = a

C21_AllOrNothing ==
    pc = "done" => (output_file.exists => returned = "True")

\* C22: simplify_file returns success only if the validated result is a
\* score-partwise with a part list and at least one part, and every part of
\* it, not only the first, has at least one measure.
C22_StructuralValidation ==
    (pc = "done" /\ returned = "True") =>
        /\ output_file.exists
        /\ WellFormed(output_file.text)
        /\ RootName(output_file.text) = "score-partwise"
        /\ RootChildren(output_file.text, "part-list") # <<>>
        /\ RootChildren(output_file.text, "part") # <<>>
        /\ \A i \in 1..Len(RootChildren(output_file.text, "part")) :
              HasChild(output_file.text, RootChildren(output_file.text, "part")[i], "measure")

\* C23: the counters reported after a run of the rhythm pass are the counts of
\* that run, the measures it visited and twice the merges it made, also when
\* the pass has run before on the same simplifier object.
C23_PerRunStatistics ==
    pc = "rhythm" =>
        /\ measures_processed = CountedMeasures(scan_log)
        /\ eighth_notes_converted = ConvertedBy(scan_log)

\* C24: Beam removal.  After the rhythm simplifier the document holds no beam
\* element, in any measure, on merged notes and on notes no rule touched.
C24_BeamRemoval ==
    pc = "rhythm" => \A k \in 1..Len(content) : content[k].t # "beam"

\* an ordered pair of events that rule 1, 2 or 3 names: pitched dotted quarter
\* and pitched eighth; pitched eighth and eighth note or rest; eighth rest and
\* pitched eighth
PairMatches(a, b) ==
    \/ ~a.rest /\ a.type = TypeQuarter /\ a.dot /\ ~b.rest /\ b.type = TypeEighth
    \/ ~a.rest /\ a.type = TypeEighth /\ b.type = TypeEighth
    \/ a.rest /\ a.type = TypeEighth /\ ~b.rest /\ b.type = TypeEighth

\* The left-to-right reading of the events from the i-th on: the event taken at
\* each position and whether it is merged with the one after it.
RECURSIVE LeftToRight(_, _)
LeftToRight(evs, i) ==
    IF i > Len(evs) THEN <<>>
    ELSE IF i < Len(evs) /\ PairMatches(evs[i], evs[i + 1])
        THEN <<[first |-> i, merged |-> TRUE]>> \o LeftToRight(evs, i + 2)
    ELSE <<[first |-> i, merged |-> FALSE]>> \o LeftToRight(evs, i + 1)

Unbeamed(e) == [e EXCEPT !.beam = FALSE]

\* C25: Left-to-right, non-overlapping scan.  The iterations of the scan follow
\* one another without overlap, and the events of the result are those of the
\* left-to-right reading: at the leftmost event not yet consumed, a pair that
\* matches rule 1, 2 or 3 gives one event with the first one's pitch (or rest)
\* that is no eighth and has no dot, and the scan goes on after the second
\* event; any other event is written unchanged (without its beam).  Whatever
\* comes before or after the pair makes no difference.  Three eighth notes A B C
\* give a quarter note A and the eighth note C unchanged.
C25_LeftToRightScan ==
    pc = "rhythm" =>
        LET before == Cores(EventsOf(prev))
            after == Cores(EventsOf(content))
            plan == LeftToRight(before, 1)
        IN  /\ \A k \in 1..Len(scan_log) :
                   /\ scan_log[k].next > scan_log[k].at
                   /\ scan_log[k].at = IF k = 1 THEN 1 ELSE scan_log[k - 1].next
            /\ Len(after) = Len(plan)
            /\ \A j \in 1..Len(plan) :
                   LET a == before[plan[j].first]
                   IN  /\ after[j].rest = a.rest
                       /\ PitchOfEvent(after[j]) = PitchOfEvent(a)
                       /\ ~plan[j].merged => after[j] = Unbeamed(a)
                       /\ plan[j].merged => after[j].type # TypeEighth /\ ~after[j].dot
            /\ (/\ Len(before) = 3
                /\ \A j \in 1..3 : IsEighthNote(before[j]))
                   => after = <<NoteEvent(PitchOfEvent(before[1]), TypeQuarter, 2),
                                Unbeamed(before[3])>>

\* three eighth notes A B C with B other than A
C25_Witness ==
    /\ pc = "rhythm"
    /\ LET before == Cores(EventsOf(prev))
       IN  /\ Len(before) = 3
           /\ \A j \in 1..3 : IsEighthNote(before[j])
           /\ before[2].step # before[1].step
           /\ before[3].beam
    /\ Len(EventsOf(content)) = 2
    /\ Len(scan_log) > 2

\* the elements of the document that lie outside every <note> element
OutsideNotes(els) ==
    LET keep == {k \in 1..Len(els) : EnclosingNote(els, k) = 0}
        elements == [k \in 1..Len(els) |-> [t |-> els[k].t, v |-> els[k].v, at |-> k]]
    IN  [j \in 1..Cardinality(keep) |->
            LET e == SelectSeq(elements, LAMBDA x : x.at \in keep)[j]
            IN  <<e.t, e.v>>]

\* the events a merging iteration of the scan took
MergedPair(s) == SubSeq(EventsOf(prev), Len(EventsOf(prev)) - Len(EventsAhead(s.at)) + 1,
                        Len(EventsOf(prev)) - Len(EventsAhead(s.next)))

\* C26: Measure structure.  After the rhythm simplifier the document has the
\* measures it had before (as many, with the same numbers, in the same order),
\* the elements outside the notes are the ones it had before, and no merge took
\* the last event of one measure together with the first event of the next.
C26_MeasureStructure ==
    pc = "rhythm" =>
        /\ MeasureNumbers(content) = MeasureNumbers(prev)
        /\ OutsideNotes(content) = OutsideNotes(prev)
        /\ \A k \in 1..Len(scan_log) :
               scan_log[k].rule # 0 =>
                   \A i, j \in 1..Len(MergedPair(scan_log[k])) :
                       MergedPair(scan_log[k])[i].measure = MergedPair(scan_log[k])[j].measure

MidiOfEvent(e) == calculate_midi_note(e.step, e.octave, e.alter)

\* the pitches of the up to 3 notes before and 3 notes after the i-th that are in
\* its measure
NeighbourMidis(evs, i) ==
    {MidiOfEvent(evs[j]) : j \in {x \in (Max(1, i - 3)..Min(Len(evs), i + 3)) \ {i} :
                                      evs[x].measure = evs[i].measure}}

\* the largest distance from pitch m to a neighbour of the i-th note
MaxJumpAt(evs, i, m) == SetMax({Abs(m - c) : c \in NeighbourMidis(evs, i)})

\* The guard of the smoothing for a shift of the i-th note by one octave
\* (delta 12 or -12): the note has a neighbour, its largest jump is above 7,
\* the shift makes the largest jump smaller, a shift down ends at or above the
\* instrument's floor and a shift up at or below the ceiling.
SmoothingGuard(evs, i, delta, instrument) ==
    /\ NeighbourMidis(evs, i) # {}
    /\ MaxJumpAt(evs, i, MidiOfEvent(evs[i])) > 7
    /\ MaxJumpAt(evs, i, MidiOfEvent(evs[i]) + delta) < MaxJumpAt(evs, i, MidiOfEvent(evs[i]))
    /\ delta < 0 => MidiOfEvent(evs[i]) + delta >= min_midi_note(instrument)
    /\ delta > 0 => MidiOfEvent(evs[i]) + delta <= 84

\* C27: Smoothing guard.  The range transposer shifts a note that is within the
\* instrument's range only by one octave and only under the guard of the
\* smoothing, taken at the note's own place: a neighbour in its measure, a
\* largest jump above 7 semitones, a shift that makes it smaller and stays
\* between floor and ceiling.  Otherwise the note is written as it was.
C27_SmoothingGuard ==
    pc = "range" =>
        LET before == EventsOf(prev)
            after == EventsOf(content)
        IN  /\ Len(after) = Len(before)
            /\ \A i \in 1..Len(before) :
                   (InRange(source_instrument, before[i])
                        /\ after[i].octave # before[i].octave) =>
                       /\ Abs(after[i].octave - before[i].octave) = 1
                       /\ SmoothingGuard(before, i,
                                         12 * (after[i].octave - before[i].octave),
                                         source_instrument)

\* the decision taken for the i-th pitched note at its own place: the basic range
\* logic and then the smoothing, on the notes of the document
OwnDirection(els, i, instrument) ==
    DecisionsOf(els, instrument)[i].direction

\* C28: Per-note decisions.  The range transposer writes each note with the
\* octave shift decided for that note at its own place; a note with the step,
\* alter and octave of an earlier note is decided by its own context, not by the
\* earlier note's.
C28_PerNoteDecisions ==
    pc = "range" =>
        LET before == EventsOf(prev)
            after == EventsOf(content)
        IN  /\ Len(after) = Len(before)
            /\ Len(DecisionsOf(prev, source_instrument)) = Len(before)
            /\ \A i \in 1..Len(before) :
                   after[i].octave - before[i].octave =
                       CASE OwnDirection(prev, i, source_instrument) = "up" -> 1
                         [] OwnDirection(prev, i, source_instrument) = "down" -> -1
                         [] OTHER -> 0

\* C29: Statistics.  After the first run of a simplifier the counter of measures
\* is the number of measures of the input and the counter of merged notes is
\* twice the number of merges, each merge writing one event for two.
C29_StatisticsConsistency ==
    (pc = "rhythm" /\ runs = 1) =>
        /\ measures_processed = Len(MeasureNumbers(prev))
        /\ eighth_notes_converted = 2 * (Len(EventsOf(prev)) - Len(EventsOf(content)))

\* the <accidental> elements of a note
AccidentalsOf(block) == SelectSeq(block, LAMBDA e : e.t = "accidental")

\* a note without its <accidental> elements and its line breaks
WithoutAccidentals(block) ==
    LET rest == SelectSeq(block, LAMBDA e : e.t # "accidental")
    IN  [j \in 1..Len(rest) |-> <<rest[j].t, rest[j].v>>]

\* the note at element k of the score before the pass is pitched and its letter
\* is flagged for its measure after the second pass
FlaggedAt(k) ==
    /\ IsCourtesyNote(prev, k)
    /\ CourtesyNoteAt(prev, k).measure_num
           \in history_log[2][CourtesyNoteAt(prev, k).note_name].needs_courtesy

KindOfAlter(alter_value) ==
    CASE alter_value = 1 -> "sharp"
      [] alter_value = -1 -> "flat"
      [] alter_value = 0 -> "natural"
      [] OTHER -> "none"

\* the third pass changed the i-th note
Changed(i) == NoteBlocks(content)[i] # NoteBlocks(prev)[i]

\* C30: Courtesy insertion.  The third pass changes a note only by writing one
\* cautionary accidental after its pitch, only into a pitched note that has no
\* accidental and whose letter is flagged for its measure, and the accidental is
\* sharp, flat or natural as the note's alter is 1, -1 or 0.  A note with an
\* accidental, a rest and a note whose letter is not flagged for its measure
\* are written as they were, and no note has two accidentals after the pass.
C30_CourtesyInsertion ==
    CourtesyDone =>
        /\ Len(NoteBlocks(content)) = Len(NoteBlocks(prev))
        /\ \A i \in 1..Len(NoteBlocks(prev)) :
               LET k == TagStarts(prev, 1, "note")[i]
                   old == NoteBlocks(prev)[i]
                   new == NoteBlocks(content)[i]
               IN  /\ Len(AccidentalsOf(new)) <= 1
                   /\ Changed(i) =>
                          /\ FlaggedAt(k)
                          /\ AccidentalsOf(old) = <<>>
                          /\ WithoutAccidentals(new) = WithoutAccidentals(old)
                          /\ Len(AccidentalsOf(new)) = 1
                          /\ AccidentalsOf(new)[1].v =
                                 [kind |-> KindOfAlter(CourtesyNoteAt(prev, k).alter_value),
                                  cautionary |-> TRUE]
                          /\ CourtesyNoteAt(prev, k).alter_value \in {1, -1, 0}
                          /\ \E j \in 2..Len(new) :
                                 new[j].t = "accidental" /\ new[j - 1].t = "endpitch"

\* a score with a rest in which the pass wrote a courtesy accidental into one
\* note and left a note with a written accidental, flagged as well, as it was
C30_Witness ==
    /\ CourtesyDone
    /\ \E i, j, r \in 1..Len(NoteBlocks(prev)) :
          /\ Changed(i)
          /\ ~Changed(j)
          /\ FlaggedAt(TagStarts(prev, 1, "note")[j])
          /\ AccidentalsOf(NoteBlocks(prev)[j]) # <<>>
          /\ Holds(NoteBlocks(prev)[r], "rest")

====
